---- MODULE Spec2Model ----
(***************************************************************************)
(* Model of the pixel-contribution core: the octahedral direction codec,   *)
(* the grid indexer, the PCMP loader, the element accesses on the loaded   *)
(* map set, the angle interpolators and the interpolation-error analysis.  *)
(*                                                                         *)
(* Numbers.  The program computes in IEEE doubles; the model computes in   *)
(* exact rational arithmetic.  A number is a pair <<n, d>> with d > 0 in   *)
(* lowest terms; d = 0 encodes the non-finite doubles (NaN = <<0,0>>,      *)
(* +Infinity = <<1,0>>, -Infinity = <<-1,0>>).  Rounding error of the      *)
(* floating-point operations is not modelled.                              *)
(*                                                                         *)
(* Vectors.  A vector is a record [dir, len2] standing for dir / sqrt(len2) *)
(* (the zero vector when len2 = 0): normalising divides by a square root   *)
(* that is irrational in general, so the divisor is kept by its square.    *)
(* Every later step of the code either divides the factor away (encode     *)
(* divides by the 1-norm of the normalised vector) or only compares signs. *)
(***************************************************************************)
EXTENDS Integers, Sequences, FiniteSets, TLC

VARIABLES
    pc,          \* which step of the current job has run
    job,         \* the input of the codec / grid-indexer job
    octahedron,  \* encode_octahedron_normal's result
    nrm2,        \* decode_octahedron_normal's result
    jl_index,    \* Julia index_from_camera_dir's result
    ts_index,    \* PixelContribMapDescriptor.index_from_camera_dir's result
    clamped,     \* the results of the clamp calls of a clamp job, in call order
    file,        \* the PCMP content the sampler wrote: header fields and maps
    data,        \* the byte buffer handed to the loaders
    ts_load,     \* outcome of load_from_url
    jl_load,     \* outcome of load_pixel_contrib
    contrib_maps,\* the map set the interpolators are built from
    interp,      \* the interpolator object under construction / in use
    query,       \* the last interpolate call and its outcome
    error_maps,  \* outcome of determine_interpolation_error
    access,      \* the last element access on the map set and its outcome
    par          \* the per-cell tasks of an error analysis run out of loop order

codecVars  == <<job, octahedron, nrm2, jl_index, ts_index, clamped>>
parseVars  == <<file, data, ts_load, jl_load>>
interpVars == <<contrib_maps, interp, query, error_maps, access>>
parVars    == <<par>>
vars == <<pc, job, octahedron, nrm2, jl_index, ts_index, clamped,
          file, data, ts_load, jl_load,
          contrib_maps, interp, query, error_maps, access, par>>

None == "none"

\* the outcome of a call: a value returned or an error thrown
Ok(v)  == [ok |-> TRUE, v |-> v]
Err(e) == [ok |-> FALSE, err |-> e]
\* the outcome variable of a call that has not been made yet
NotRun == Err("not run")

-----------------------------------------------------------------------------
(* Exact arithmetic standing for the doubles of the program.               *)

Abs(i) == IF i < 0 THEN -i ELSE i

RECURSIVE GCD(_, _)
GCD(a, b) == IF b = 0 THEN a ELSE GCD(b, a % b)

RECURSIVE Pow2(_)
Pow2(k) == IF k = 0 THEN 1 ELSE 2 * Pow2(k - 1)

NaN    == <<0, 0>>
IsNaN(a)    == a[2] = 0 /\ a[1] = 0
IsFinite(a) == a[2] # 0

\* the double n/d; a zero denominator gives NaN (0/0) or a signed infinity
Rat(n, d) ==
    IF d = 0 THEN (IF n = 0 THEN NaN ELSE IF n > 0 THEN <<1, 0>> ELSE <<-1, 0>>)
    ELSE LET g == GCD(Abs(n), Abs(d))
             s == IF d < 0 THEN -1 ELSE 1
         IN  <<(s * n) \div g, (s * d) \div g>>

R(i) == <<i, 1>>
Half == <<1, 2>>

RNeg(a) == <<-a[1], a[2]>>
RAbs(a) == <<Abs(a[1]), a[2]>>

RAdd(a, b) ==
    IF IsFinite(a) /\ IsFinite(b) THEN Rat(a[1] * b[2] + b[1] * a[2], a[2] * b[2])
    ELSE IF IsNaN(a) \/ IsNaN(b) THEN NaN
    ELSE IF ~IsFinite(a) /\ ~IsFinite(b) THEN (IF a = b THEN a ELSE NaN)
    ELSE IF IsFinite(a) THEN b ELSE a

RSub(a, b) == RAdd(a, RNeg(b))

RMul(a, b) ==
    IF IsFinite(a) /\ IsFinite(b) THEN Rat(a[1] * b[1], a[2] * b[2])
    ELSE IF IsNaN(a) \/ IsNaN(b) \/ a[1] = 0 \/ b[1] = 0 THEN NaN
    ELSE IF (a[1] > 0) = (b[1] > 0) THEN <<1, 0>> ELSE <<-1, 0>>

RDiv(a, b) ==
    IF IsFinite(a) /\ IsFinite(b) THEN Rat(a[1] * b[2], a[2] * b[1])
    ELSE IF IsNaN(a) \/ IsNaN(b) \/ (~IsFinite(a) /\ ~IsFinite(b)) THEN NaN
    ELSE IF IsFinite(a) THEN R(0)
    ELSE IF (a[1] > 0) = (b[1] > 0) THEN <<1, 0>> ELSE <<-1, 0>>

\* comparisons of doubles: every comparison with NaN is false
RLt(a, b) ==
    IF IsNaN(a) \/ IsNaN(b) THEN FALSE
    ELSE IF IsFinite(a) /\ IsFinite(b) THEN a[1] * b[2] < b[1] * a[2]
    ELSE IF ~IsFinite(a) /\ ~IsFinite(b) THEN a[1] < b[1]
    ELSE IF IsFinite(a) THEN b[1] > 0 ELSE a[1] < 0
RGt(a, b) == RLt(b, a)
RLe(a, b) == ~IsNaN(a) /\ ~IsNaN(b) /\ ~RLt(b, a)
RGe(a, b) == RLe(b, a)

\* floor of a finite number
RFloor(a) ==
    IF a[1] >= 0 THEN a[1] \div a[2]
    ELSE -((-a[1] + a[2] - 1) \div a[2])

-----------------------------------------------------------------------------
(* DirectionCodec                                                          *)

\* a vector of small integers, as numbers
Vec3(x, y, z) == <<R(x), R(y), R(z)>>

Dot(v, w) == RAdd(RAdd(RMul(v[1], w[1]), RMul(v[2], w[2])), RMul(v[3], w[3]))
Cross(v, w) ==
    << RSub(RMul(v[2], w[3]), RMul(v[3], w[2])),
       RSub(RMul(v[3], w[1]), RMul(v[1], w[3])),
       RSub(RMul(v[1], w[2]), RMul(v[2], w[1])) >>

\* the vector with the given components
Plain(v) == [dir |-> v, len2 |-> R(1)]

IsZeroVec(a) == a.dir = Vec3(0, 0, 0)

\* vec3.normalize: a / |a| where |a|^2 = dot(dir, dir) / len2; the zero
\* vector is left as it is
normalize_ts(a) ==
    IF IsZeroVec(a) THEN [dir |-> a.dir, len2 |-> R(0)]
    ELSE [dir |-> a.dir, len2 |-> Dot(a.dir, a.dir)]

\* LinearAlgebra.normalize: a / norm(a), which is 0/0 for the zero vector
normalize_jl(a) ==
    IF IsZeroVec(a) THEN [dir |-> <<NaN, NaN, NaN>>, len2 |-> NaN]
    ELSE [dir |-> a.dir, len2 |-> Dot(a.dir, a.dir)]

\* a fold that adds |v2| instead of subtracting it
wrap_octahedron_normal_value_plus(v1, v2) ==
    RMul(RAdd(R(1), RAbs(v2)), IF RGe(v1, R(0)) THEN R(1) ELSE R(-1))

wrap_octahedron_normal_value(v1, v2) ==
    RMul(RSub(R(1), RAbs(v2)), IF RGe(v1, R(0)) THEN R(1) ELSE R(-1))

\* the body shared by the TypeScript and the Julia encoder, after normalize:
\* abs_sum is the 1-norm of normal.dir over sqrt(len2), and the quotient
\* normal[0] / abs_sum is dir[0] over the 1-norm of dir
encode_normalized(normal) ==
    LET abs_sum == RAdd(RAdd(RAbs(normal.dir[1]), RAbs(normal.dir[2])), RAbs(normal.dir[3]))
        n0 == RDiv(normal.dir[1], abs_sum)
        n1 == RDiv(normal.dir[2], abs_sum)
        fold == RLt(normal.dir[3], R(0))
        tmp == n0
        f0 == IF fold THEN wrap_octahedron_normal_value(n0, n1) ELSE n0
        f1 == IF fold THEN wrap_octahedron_normal_value(n1, tmp) ELSE n1
    IN  <<RAdd(RMul(f0, Half), Half), RAdd(RMul(f1, Half), Half)>>

encode_octahedron_normal(in_normal) == encode_normalized(normalize_ts(in_normal))

jl_encode_octahedron_normal(in_normal) == encode_normalized(normalize_jl(in_normal))

\* a decoder that passes the fold its arguments in the wrong order
decode_swapped(in_octahedron) ==
    LET o0 == RSub(RMul(in_octahedron[1], R(2)), R(1))
        o1 == RSub(RMul(in_octahedron[2], R(2)), R(1))
        z  == RSub(RSub(R(1), RAbs(o0)), RAbs(o1))
        x  == IF RGe(z, R(0)) THEN o0 ELSE wrap_octahedron_normal_value(o1, o0)
        y  == IF RGe(z, R(0)) THEN o1 ELSE wrap_octahedron_normal_value(o0, o1)
    IN  <<x, y, z>>

\* a decoder that leaves out the fold of the lower hemisphere
decode_unfolded(in_octahedron) ==
    LET o0 == RSub(RMul(in_octahedron[1], R(2)), R(1))
        o1 == RSub(RMul(in_octahedron[2], R(2)), R(1))
        z  == RSub(RSub(R(1), RAbs(o0)), RAbs(o1))
    IN  <<o0, o1, z>>

\* the vector decode builds before it normalises it
decode_raw(in_octahedron) ==
    LET o0 == RSub(RMul(in_octahedron[1], R(2)), R(1))
        o1 == RSub(RMul(in_octahedron[2], R(2)), R(1))
        z  == RSub(RSub(R(1), RAbs(o0)), RAbs(o1))
        x  == IF RGe(z, R(0)) THEN o0 ELSE wrap_octahedron_normal_value(o0, o1)
        y  == IF RGe(z, R(0)) THEN o1 ELSE wrap_octahedron_normal_value(o1, o0)
    IN  <<x, y, z>>

decode_octahedron_normal(in_octahedron) == normalize_ts(Plain(decode_raw(in_octahedron)))

jl_decode_octahedron_normal(in_octahedron) == normalize_jl(Plain(decode_raw(in_octahedron)))

\* a is a unit vector: the square of its divisor is the square of |dir|
IsUnit(a) == a.len2 = Dot(a.dir, a.dir) /\ RGt(a.len2, R(0))

\* the unit vectors a / |a| and b are the same vector: b.dir is a positive
\* multiple of a.dir (cross product 0, dot product > 0), so that
\* 1 - dot(a / |a|, b) = 0
SameDirection(a, b) ==
    /\ IsUnit(b)
    /\ Cross(a.dir, b.dir) = Vec3(0, 0, 0)
    /\ RGt(Dot(a.dir, b.dir), R(0))

InUnit(c) == RLe(R(0), c) /\ RLe(c, R(1))

-----------------------------------------------------------------------------
(* GridIndexer                                                             *)

\* a clamp without the test against the upper bound
clamp_lower_only(x, min_value, max_value) ==
    IF RLt(x, min_value) THEN min_value ELSE x

clamp(x, min_value, max_value) ==
    IF RLt(x, min_value) THEN min_value
    ELSE IF RGt(x, max_value) THEN max_value
    ELSE x

\* Math.round: the nearest integer, a tie going towards +Infinity
MathRound(a) == IF IsFinite(a) THEN R(RFloor(RAdd(a, Half))) ELSE a

\* Julia's round(x): the nearest integer, a tie going to the even neighbour
RoundNearestEven(a) ==
    LET f == RFloor(a)
        frac == RSub(a, R(f))
    IN  IF RLt(frac, Half) THEN f
        ELSE IF RGt(frac, Half) THEN f + 1
        ELSE IF f % 2 = 0 THEN f ELSE f + 1

\* an indexer that does not clamp the rounded coordinates
index_from_camera_dir_unclamped(map_size, dir) ==
    LET enc == encode_octahedron_normal(dir)
        uv0 == RSub(RMul(enc[1], R(map_size)), Half)
        uv1 == RSub(RMul(enc[2], R(map_size)), Half)
        u == MathRound(uv0)
        v == MathRound(uv1)
    IN  RAdd(RMul(v, R(map_size)), u)

\* PixelContribMapDescriptor.index_from_camera_dir: the flat index, a number
index_from_camera_dir(map_size, dir) ==
    LET enc == encode_octahedron_normal(dir)
        uv0 == RSub(RMul(enc[1], R(map_size)), Half)
        uv1 == RSub(RMul(enc[2], R(map_size)), Half)
        u == clamp(MathRound(uv0), R(0), R(map_size - 1))
        v == clamp(MathRound(uv1), R(0), R(map_size - 1))
    IN  RAdd(RMul(v, R(map_size)), u)

\* round(UInt32, x): InexactError for NaN and for a negative result
RoundUInt32(a) ==
    IF ~IsFinite(a) THEN Err("InexactError")
    ELSE IF RoundNearestEven(a) < 0 THEN Err("InexactError")
    ELSE Ok(RoundNearestEven(a))

IClamp(x, lo, hi) == IF x < lo THEN lo ELSE IF x > hi THEN hi ELSE x

\* an indexer that forgets to centre the samples on the pixel midpoints
jl_index_from_camera_dir_uncentred(dir, map_size) ==
    LET enc == jl_encode_octahedron_normal(dir)
        r0 == RoundUInt32(RMul(enc[1], R(map_size)))
        r1 == RoundUInt32(RMul(enc[2], R(map_size)))
    IN  IF ~r0.ok \/ ~r1.ok THEN Err("InexactError")
        ELSE Ok(<<IClamp(r0.v, 0, map_size - 1) + 1, IClamp(r1.v, 0, map_size - 1) + 1>>)

\* Julia index_from_camera_dir: the 1-based index pair, or the error thrown
jl_index_from_camera_dir(dir, map_size) ==
    IF map_size <= 0 THEN Err("ArgumentError")
    ELSE LET enc == jl_encode_octahedron_normal(dir)
             r0 == RoundUInt32(RSub(RMul(enc[1], R(map_size)), Half))
             r1 == RoundUInt32(RSub(RMul(enc[2], R(map_size)), Half))
         IN  IF ~r0.ok \/ ~r1.ok THEN Err("InexactError")
             ELSE Ok(<<IClamp(r0.v, 0, map_size - 1) + 1, IClamp(r1.v, 0, map_size - 1) + 1>>)

\* a range check written for 0-based indices: it lets the index 0 through and
\* rejects the index map_size
jl_camera_dir_from_index_zero_based(in_uv, map_size) ==
    IF map_size <= 0 THEN Err("ArgumentError")
    ELSE IF in_uv[1] < 0 \/ in_uv[1] >= map_size \/ in_uv[2] < 0 \/ in_uv[2] >= map_size
         THEN Err("ArgumentError")
    ELSE LET uv == << RDiv(RSub(R(in_uv[1]), Half), R(map_size)),
                      RDiv(RSub(R(in_uv[2]), Half), R(map_size)) >>
         IN  Ok(jl_decode_octahedron_normal(uv))

\* Julia camera_dir_from_index: the direction, or the error thrown
jl_camera_dir_from_index(in_uv, map_size) ==
    IF map_size <= 0 THEN Err("ArgumentError")
    ELSE IF in_uv[1] < 1 \/ in_uv[1] > map_size \/ in_uv[2] < 1 \/ in_uv[2] > map_size
         THEN Err("ArgumentError")
    ELSE LET uv == << RDiv(RSub(R(in_uv[1]), Half), R(map_size)),
                      RDiv(RSub(R(in_uv[2]), Half), R(map_size)) >>
         IN  Ok(jl_decode_octahedron_normal(uv))

-----------------------------------------------------------------------------
(* ContributionMapStore: the PCMP loaders                                  *)

\* "PCMP" as character codes, and as the little-endian word Julia reads
PCMP == <<80, 67, 77, 80>>
PCMP_MAGIC == 1347240784

U32Bytes(n) ==
    <<n % 256, (n \div 256) % 256, (n \div 65536) % 256, (n \div 16777216) % 256>>

\* the little-endian unsigned word at byte offset off (0-based) of bytes
getUint32(bytes, off) ==
    bytes[off + 1] + 256 * bytes[off + 2] + 65536 * bytes[off + 3]
        + 16777216 * bytes[off + 4]

\* the value of the IEEE-754 single with the given bit pattern: zero, or a
\* positive normal number (2^23 + m) * 2^(e - 150) with 120 <= e <= 150
F32FromBits(bits) ==
    LET sgn == 0   \* every pattern of the model is below 2^31: the sign bit is clear
        e == (bits \div 8388608) % 256
        m == bits % 8388608
    IN  CASE e = 0 /\ m = 0 -> R(0)
          [] e >= 120 /\ e <= 150 ->
                Rat((IF sgn = 1 THEN -1 ELSE 1) * (8388608 + m), Pow2(150 - e))

getFloat32(bytes, off) == F32FromBits(getUint32(bytes, off))

\* new Float32Array(buffer, offset, length), the caller having checked the range
Float32Array(bytes, offset, length) ==
    [k \in 1..length |-> getFloat32(bytes, offset + 4 * (k - 1))]

\* Header.from_bytes on data.slice(0, 8): DataView.getUint32(4) throws a
\* RangeError when the slice holds fewer than 8 bytes
Header_from_bytes(bytes) ==
    IF Len(bytes) < 8 THEN Err("RangeError")
    ELSE Ok([magic |-> SubSeq(bytes, 1, 4), version |-> getUint32(bytes, 4)])

Header_is_valid(h) == h.magic = PCMP /\ h.version = 1

\* a loop that keeps the maps read so far when the buffer ends early
RECURSIVE ReadMapsPartial(_, _, _, _, _)
ReadMapsPartial(bytes, i, num_maps, offset, maps) ==
    IF i >= num_maps THEN Ok(maps)
    ELSE IF offset + 8 > Len(bytes) THEN Ok(maps)
    ELSE LET map_size == getUint32(bytes, offset)
             camera_angle == getFloat32(bytes, offset + 4)
             n == IF offset + 8 + 4 * map_size * map_size > Len(bytes)
                  THEN (Len(bytes) - offset - 8) \div 4
                  ELSE map_size * map_size
             map == [descriptor |-> [map_size |-> map_size, camera_angle |-> camera_angle],
                     pixel_contrib |-> Float32Array(bytes, offset + 8, n)]
         IN  IF n < map_size * map_size THEN Ok(Append(maps, map))
             ELSE ReadMapsPartial(bytes, i + 1, num_maps,
                                  offset + 8 + 4 * map_size * map_size, Append(maps, map))

\* a loop that puts each map in front of the ones read before it
RECURSIVE ReadMapsReversed(_, _, _, _, _)
ReadMapsReversed(bytes, i, num_maps, offset, maps) ==
    IF i >= num_maps THEN Ok(maps)
    ELSE IF offset + 8 > Len(bytes) THEN Err("RangeError")
    ELSE LET map_size == getUint32(bytes, offset)
             camera_angle == getFloat32(bytes, offset + 4)
             map == [descriptor |-> [map_size |-> map_size, camera_angle |-> camera_angle],
                     pixel_contrib |-> Float32Array(bytes, offset + 8, map_size * map_size)]
         IN  IF offset + 8 + 4 * map_size * map_size > Len(bytes) THEN Err("RangeError")
             ELSE ReadMapsReversed(bytes, i + 1, num_maps,
                                   offset + 8 + 4 * map_size * map_size, <<map>> \o maps)

\* a loop that rejects a first angle other than 0 and an angle that does not
\* exceed the angle of the map before it
RECURSIVE ReadMapsAscending(_, _, _, _, _)
ReadMapsAscending(bytes, i, num_maps, offset, maps) ==
    IF i >= num_maps THEN Ok(maps)
    ELSE IF offset + 8 > Len(bytes) THEN Err("RangeError")
    ELSE LET map_size == getUint32(bytes, offset)
             camera_angle == getFloat32(bytes, offset + 4)
             map == [descriptor |-> [map_size |-> map_size, camera_angle |-> camera_angle],
                     pixel_contrib |-> Float32Array(bytes, offset + 8, map_size * map_size)]
         IN  IF offset + 8 + 4 * map_size * map_size > Len(bytes) THEN Err("RangeError")
             ELSE IF i = 0 /\ camera_angle # R(0) THEN Err("Invalid camera angle")
             ELSE IF i > 0 /\ RLe(camera_angle, maps[i].descriptor.camera_angle)
                  THEN Err("Invalid camera angle")
             ELSE ReadMapsAscending(bytes, i + 1, num_maps,
                                    offset + 8 + 4 * map_size * map_size, Append(maps, map))

\* the loop of load_from_url: map i is read at offset; every read past the
\* end of the buffer throws a RangeError
RECURSIVE ReadMaps(_, _, _, _, _)
ReadMaps(bytes, i, num_maps, offset, maps) ==
    IF i >= num_maps THEN Ok(maps)
    ELSE IF offset + 4 > Len(bytes) THEN Err("RangeError")
    ELSE IF offset + 8 > Len(bytes) THEN Err("RangeError")
    ELSE LET map_size == getUint32(bytes, offset)
             camera_angle == getFloat32(bytes, offset + 4)
         IN  IF offset + 8 + 4 * map_size * map_size > Len(bytes) THEN Err("RangeError")
             ELSE LET map == [descriptor |-> [map_size |-> map_size,
                                              camera_angle |-> camera_angle],
                              pixel_contrib |->
                                  Float32Array(bytes, offset + 8, map_size * map_size)]
                  IN  ReadMaps(bytes, i + 1, num_maps,
                               offset + 8 + 4 * map_size * map_size, Append(maps, map))

load_from_url(bytes) ==
    LET header == Header_from_bytes(SubSeq(bytes, 1, IF Len(bytes) < 8 THEN Len(bytes) ELSE 8))
    IN  IF ~header.ok THEN header
        ELSE IF ~Header_is_valid(header.v) THEN Err("Invalid pixel contribution header")
        ELSE IF 12 > Len(bytes) THEN Err("RangeError")
        ELSE ReadMaps(bytes, 0, getUint32(bytes, 8), 12, <<>>)

\* the loop of load_pixel_contrib: read and read! throw an EOFError at the
\* end of the file; values is the map_size x map_size matrix, filled in
\* memory (column-major) order
RECURSIVE jl_ReadMaps(_, _, _, _, _)
jl_ReadMaps(bytes, i, num_maps, offset, maps) ==
    IF i > num_maps THEN Ok(maps)
    ELSE IF offset + 4 > Len(bytes) THEN Err("EOFError")
    ELSE IF offset + 8 > Len(bytes) THEN Err("EOFError")
    ELSE LET map_size == getUint32(bytes, offset)
             angle == getFloat32(bytes, offset + 4)
         IN  IF offset + 8 + 4 * map_size * map_size > Len(bytes) THEN Err("EOFError")
             ELSE LET values == [ij \in (1..map_size) \X (1..map_size) |->
                                    getFloat32(bytes, offset + 8
                                        + 4 * ((ij[2] - 1) * map_size + (ij[1] - 1)))]
                  IN  jl_ReadMaps(bytes, i + 1, num_maps,
                                  offset + 8 + 4 * map_size * map_size,
                                  Append(maps, [angle |-> angle, values |-> values]))

load_pixel_contrib(bytes) ==
    IF 4 > Len(bytes) THEN Err("EOFError")
    ELSE IF getUint32(bytes, 0) # PCMP_MAGIC THEN Err("File does not start with 'PCMP'")
    ELSE IF 8 > Len(bytes) THEN Err("EOFError")
    ELSE IF getUint32(bytes, 4) # 1 THEN Err("Unsupported version")
    ELSE IF 12 > Len(bytes) THEN Err("EOFError")
    ELSE jl_ReadMaps(bytes, 1, getUint32(bytes, 8), 12, <<>>)

-----------------------------------------------------------------------------
(* AngleInterpolators                                                      *)

\* the interpolator variable before any constructor has run, and the query
\* variable before any interpolate call
NoInterpolator == [name |-> "none", out |-> NotRun]
NoQuery == [angle |-> R(0), pos |-> <<0, 0>>, out |-> NotRun]
\* the access variable before any element of the set has been read
NoAccess == [op |-> "none", i |-> 0, x |-> 0, y |-> 0, out |-> NotRun]

\* the par variable before the tasks of an analysis have been set up
NoTasks ==
    [started |-> FALSE, done |-> {}, last |-> <<0, 0, 0>>,
     out |-> <<>>, writes |-> <<>>, failed |-> <<>>]

\* what reading an array element outside the array gives
Undefined == "undefined"

\* contrib_maps[i]: the map, or undefined outside 0 .. length-1
ArrayAt(maps, i) ==
    IF i >= 0 /\ i < Len(maps) THEN Ok(maps[i + 1]) ELSE Ok(Undefined)

\* contrib_maps[i].pixel_contrib[y * map_size + x]: reading a property of
\* undefined throws a TypeError, an element outside the array is undefined
PixelContribAt(maps, i, x, y) ==
    IF i < 0 \/ i >= Len(maps) THEN Err("TypeError")
    ELSE LET contrib == maps[i + 1]
             index == y * contrib.descriptor.map_size + x
         IN  IF index >= 0 /\ index < Len(contrib.pixel_contrib)
             THEN Ok(contrib.pixel_contrib[index + 1])
             ELSE Ok(Undefined)

\* pixel_contrib[index] of a Float32Array: undefined outside 0 .. length-1,
\* which the arithmetic that follows turns into NaN
ValueAtIndex(pixel_contrib, index) ==
    IF index >= 0 /\ index < Len(pixel_contrib) THEN pixel_contrib[index + 1] ELSE NaN

\* contrib_maps[i] for a 0-based i inside the array
MapAt(maps, i) == maps[i + 1]

\* a constructor that binds the map after the first one as the last map
LinearPixelContribInterpolator_second(maps) ==
    Ok([first_map |-> MapAt(maps, 0), last_map |-> MapAt(maps, IF Len(maps) > 1 THEN 1 ELSE 0)])

LinearPixelContribInterpolator(maps) ==
    Ok([first_map |-> MapAt(maps, 0), last_map |-> MapAt(maps, Len(maps) - 1)])

Linear_interpolate(self, angle, pos) ==
    LET first_angle == self.first_map.descriptor.camera_angle
        last_angle == self.last_map.descriptor.camera_angle
        index == pos[2] * self.first_map.descriptor.map_size + pos[1]
        first_value == ValueAtIndex(self.first_map.pixel_contrib, index)
        last_value == ValueAtIndex(self.last_map.pixel_contrib, index)
        f == RDiv(RSub(angle, first_angle), RSub(last_angle, first_angle))
    IN  Ok(RAdd(RMul(first_value, RSub(R(1), f)), RMul(last_value, f)))

\* mat2.invert of mat2.fromValues(m0, m1, m2, m3): null for a zero determinant
mat2_invert(m) ==
    LET det == RSub(RMul(m[1], m[4]), RMul(m[3], m[2]))
    IN  IF det = R(0) \/ IsNaN(det) THEN None
        ELSE LET d == RDiv(R(1), det)
             IN  <<RMul(m[4], d), RMul(RNeg(m[2]), d), RMul(RNeg(m[3]), d), RMul(m[1], d)>>

\* vec2.transformMat2(out, a, m)
vec2_transformMat2(a, m) ==
    << RAdd(RMul(m[1], a[1]), RMul(m[3], a[2])),
       RAdd(RMul(m[2], a[1]), RMul(m[4], a[2])) >>

\* a constructor that takes the lower of the two middle maps of an even set
QuadraticPixelContribInterpolator_lower_middle(maps) ==
    IF Len(maps) <= 3 THEN Err("Not enough contribution maps given")
    ELSE LET first_map == MapAt(maps, 0)
             last_map == MapAt(maps, Len(maps) - 1)
             middle_map == MapAt(maps, (Len(maps) - 1) \div 2)
             x1 == middle_map.descriptor.camera_angle
             x2 == last_map.descriptor.camera_angle
         IN  Ok([first_map |-> first_map, middle_map |-> middle_map, last_map |-> last_map,
                 A |-> mat2_invert(<<RMul(x1, x1), RMul(x2, x2), x1, x2>>)])

\* the constructor of interpolate.ts; console.assert only logs
QuadraticPixelContribInterpolator(maps) ==
    IF Len(maps) <= 3 THEN Err("Not enough contribution maps given")
    ELSE LET first_map == MapAt(maps, 0)
             last_map == MapAt(maps, Len(maps) - 1)
             middle_map == MapAt(maps, Len(maps) \div 2)
             x1 == middle_map.descriptor.camera_angle
             x2 == last_map.descriptor.camera_angle
         IN  Ok([first_map |-> first_map, middle_map |-> middle_map, last_map |-> last_map,
                 A |-> mat2_invert(<<RMul(x1, x1), RMul(x2, x2), x1, x2>>)])

\* reading m[0] of a null matrix throws a TypeError
Quadratic_interpolate(self, angle, pos) ==
    LET index == pos[2] * self.first_map.descriptor.map_size + pos[1]
        y0 == ValueAtIndex(self.first_map.pixel_contrib, index)
        y1 == ValueAtIndex(self.middle_map.pixel_contrib, index)
        y2 == ValueAtIndex(self.last_map.pixel_contrib, index)
        c == y0
        rhs == <<RSub(y1, c), RSub(y2, c)>>
    IN  IF self.A = None THEN Err("TypeError")
        ELSE LET coeffs == vec2_transformMat2(rhs, self.A)
                 a == coeffs[1]
                 b == coeffs[2]
             IN  Ok(RAdd(RAdd(RMul(RMul(a, angle), angle), RMul(b, angle)), c))

-----------------------------------------------------------------------------
(* The tangent parametrisation.  Camera angles of the interpolator jobs are *)
(* exact multiples of pi/4, written in units of pi/2: the rational r stands *)
(* for the angle r * pi/2.  Linear and Quadratic depend on ratios of angles *)
(* only, so the unit does not show in their results.  tan(angle / 2) of a   *)
(* multiple of pi/4 lies in Q(sqrt 2); a number of that field is a pair     *)
(* <<p, q>> of rationals standing for p + q * sqrt(2), and a non-finite     *)
(* double is <<x, 0>> with x non-finite.                                    *)

SFromR(a) == <<a, R(0)>>
SFinite(a) == IsFinite(a[1]) /\ IsFinite(a[2])
SIsNaN(a) == IsNaN(a[1]) \/ IsNaN(a[2])

\* the sign of p + q * sqrt(2): by the signs of p and q, and by comparing p^2
\* with 2 q^2 when they differ
SSign(a) ==
    LET p == a[1][1]
        q == a[2][1]
        pp == RMul(a[1], a[1])
        qq2 == RMul(R(2), RMul(a[2], a[2]))
    IN  IF p = 0 /\ q = 0 THEN 0
        ELSE IF p >= 0 /\ q >= 0 THEN 1
        ELSE IF p <= 0 /\ q <= 0 THEN -1
        ELSE IF p > 0 THEN (IF RGt(pp, qq2) THEN 1 ELSE -1)
        ELSE (IF RGt(qq2, pp) THEN 1 ELSE -1)

\* a rational of the same sign, or the non-finite value itself
SApprox(a) == IF SFinite(a) THEN R(SSign(a)) ELSE IF IsFinite(a[1]) THEN a[2] ELSE a[1]

SNeg(a) == <<RNeg(a[1]), RNeg(a[2])>>

SAdd(a, b) ==
    IF SFinite(a) /\ SFinite(b) THEN <<RAdd(a[1], b[1]), RAdd(a[2], b[2])>>
    ELSE SFromR(RAdd(SApprox(a), SApprox(b)))

SSub(a, b) == SAdd(a, SNeg(b))

SMul(a, b) ==
    IF SFinite(a) /\ SFinite(b)
    THEN << RAdd(RMul(a[1], b[1]), RMul(R(2), RMul(a[2], b[2]))),
            RAdd(RMul(a[1], b[2]), RMul(a[2], b[1])) >>
    ELSE SFromR(RMul(SApprox(a), SApprox(b)))

\* a / b by the conjugate of b; x / 0 is a signed infinity and 0 / 0 is NaN
SDiv(a, b) ==
    IF SFinite(a) /\ SFinite(b) /\ SSign(b) # 0
    THEN LET norm == RSub(RMul(b[1], b[1]), RMul(R(2), RMul(b[2], b[2])))
         IN  SMul(a, <<RDiv(b[1], norm), RDiv(RNeg(b[2]), norm)>>)
    ELSE SFromR(RDiv(SApprox(a), SApprox(b)))

SAbs(a) ==
    IF SFinite(a) THEN (IF SSign(a) < 0 THEN SNeg(a) ELSE a)
    ELSE SFromR(RAbs(SApprox(a)))

SLt(a, b) == ~SIsNaN(a) /\ ~SIsNaN(b) /\ RLt(SApprox(SSub(a, b)), R(0))

Sqrt2 == <<R(0), R(1)>>

\* the angles whose half has a tangent in Q(sqrt 2): 0, pi/4, pi/2, 3 pi/4
TanAngles == {R(0), Rat(1, 2), R(1), Rat(3, 2)}

\* Math.tan(angle / 2.0): tan 0 = 0, tan(pi/8) = sqrt(2) - 1, tan(pi/4) = 1,
\* tan(3 pi/8) = sqrt(2) + 1
Math_tan_half(angle) ==
    CASE angle = R(0) -> SFromR(R(0))
      [] angle = Rat(1, 2) -> <<R(-1), R(1)>>
      [] angle = R(1) -> SFromR(R(1))
      [] angle = Rat(3, 2) -> <<R(1), R(1)>>

AnglePixelContribInterpolator(maps) ==
    Ok([first_map |-> MapAt(maps, 0), last_map |-> MapAt(maps, Len(maps) - 1)])

\* a blend that is linear in the angle instead of in tan(angle / 2)
Angle_interpolate_linear(self, angle, pos) ==
    LET r == Linear_interpolate(self, angle, pos)
    IN  Ok(SFromR(r.v))

Angle_interpolate(self, angle, pos) ==
    LET first_angle == self.first_map.descriptor.camera_angle
        last_angle == self.last_map.descriptor.camera_angle
        index == pos[2] * self.first_map.descriptor.map_size + pos[1]
        first_value == SFromR(ValueAtIndex(self.first_map.pixel_contrib, index))
        last_value == SFromR(ValueAtIndex(self.last_map.pixel_contrib, index))
        a_start == Math_tan_half(first_angle)
        a_last == Math_tan_half(last_angle)
        a == Math_tan_half(angle)
        t == SDiv(SSub(a, a_start), SSub(a_last, a_start))
    IN  Ok(SAdd(SMul(first_value, SSub(SFromR(R(1)), t)), SMul(last_value, t)))

\* the angle-keyed wrappers.  this.interpolator is a Map from camera angle to
\* the sub-interpolator built from one map; set() replaces the entry of an
\* angle that is already a key.  A sub-interpolator is kept as the map it was
\* built from.
\* a Map that keeps the first sub-interpolator set for an angle
AngleKeyedMapFirst(maps) ==
    LET angles == {maps[k].descriptor.camera_angle : k \in 1..Len(maps)}
        first(a) == CHOOSE k \in 1..Len(maps) :
                       /\ maps[k].descriptor.camera_angle = a
                       /\ \A j \in 1..(k - 1) : maps[j].descriptor.camera_angle # a
    IN  [a \in angles |-> maps[first(a)]]

AngleKeyedMap(maps) ==
    LET angles == {maps[k].descriptor.camera_angle : k \in 1..Len(maps)}
        last(a) == CHOOSE k \in 1..Len(maps) :
                      /\ maps[k].descriptor.camera_angle = a
                      /\ \A j \in (k + 1)..Len(maps) : maps[j].descriptor.camera_angle # a
    IN  [a \in angles |-> maps[last(a)]]

PixelContribValuePerAxisInterpolator(maps) == Ok([interpolator |-> AngleKeyedMap(maps)])

PixelContribBarycentricInterpolator(maps) == Ok([interpolator |-> AngleKeyedMap(maps)])

\* op.interpolate(dir) for dir = desc.camera_dir_from_index(desc.get_index(x, y)):
\* the value the sub-interpolator op derives for the cell, an uninterpreted
\* term <<kind, map, position>> of the sub-interpolator's kind, its map and
\* the position
SubInterpolate(kind, op, pos) == <<kind, op, pos>>

\* the key of the Map that is nearest to the angle
NearestKey(self, angle) ==
    CHOOSE a \in DOMAIN self.interpolator :
        \A b \in DOMAIN self.interpolator :
            RLe(RAbs(RSub(a, angle)), RAbs(RSub(b, angle)))

\* a lookup that falls back to the sub-interpolator of the nearest angle
ValuePerAxis_interpolate_nearest(self, angle, pos) ==
    Ok(SubInterpolate("ValuePerAxis", self.interpolator[NearestKey(self, angle)], pos))

ValuePerAxis_interpolate(self, angle, pos) ==
    IF angle \notin DOMAIN self.interpolator THEN Ok(R(0))
    ELSE Ok(SubInterpolate("ValuePerAxis", self.interpolator[angle], pos))

Barycentric_interpolate(self, angle, pos) ==
    IF angle \notin DOMAIN self.interpolator THEN Ok(R(0))
    ELSE Ok(SubInterpolate("Barycentric", self.interpolator[angle], pos))

-----------------------------------------------------------------------------
(* ErrorAnalyzer                                                           *)

\* i.interpolate(angle, pos) of the PixelContribInterpolator interface, for an
\* interpolator object it = [name, out] whose constructor has returned
interpolate(it, angle, pos) ==
    CASE it.name = "Linear" -> Linear_interpolate(it.out.v, angle, pos)
      [] it.name = "Angle" -> Angle_interpolate(it.out.v, angle, pos)
      [] it.name = "Quadratic" -> Quadratic_interpolate(it.out.v, angle, pos)
      [] it.name = "ValuePerAxis" -> ValuePerAxis_interpolate(it.out.v, angle, pos)
      [] it.name = "Barycentric" -> Barycentric_interpolate(it.out.v, angle, pos)

\* a difference that keeps its sign
Math_diff(it, value, stored) ==
    IF it.name = "Angle" THEN SSub(value, SFromR(stored))
    ELSE RSub(value, stored)

\* Math.abs(value - stored); the Angle interpolator computes in Q(sqrt 2)
Math_abs_diff(it, value, stored) ==
    IF it.name = "Angle" THEN SAbs(SSub(value, SFromR(stored)))
    ELSE RAbs(RSub(value, stored))

\* new Float32Array(n): n zeros
ZeroArray(it, n) == [k \in 1..n |-> IF it.name = "Angle" THEN SFromR(R(0)) ELSE R(0)]

\* the outcome of i.interpolate(camera_angle, [x, y]) for the cell of the flat
\* index = y * map_size + x (0-based)
CellOutcome(it, descriptor, index) ==
    interpolate(it, descriptor.camera_angle,
                <<index % descriptor.map_size, index \div descriptor.map_size>>)

\* the first exception in the order of the loops, if a cell throws
FirstFailure(outcomes) ==
    outcomes[CHOOSE k \in DOMAIN outcomes :
                 ~outcomes[k].ok /\ \A j \in DOMAIN outcomes : j < k => outcomes[j].ok]

\* the outcomes of the interpolate calls of the two loops over y and x, by
\* the flat index + 1
CellOutcomes(it, descriptor) ==
    [k \in 1..(descriptor.map_size * descriptor.map_size) |->
        CellOutcome(it, descriptor, k - 1)]

\* loops that write into the array they read from
StoreErrorsInPlace(it, src, outcomes) ==
    IF \E k \in DOMAIN outcomes : ~outcomes[k].ok THEN FirstFailure(outcomes)
    ELSE Ok([src |-> [k \in DOMAIN outcomes |-> Math_abs_diff(it, outcomes[k].v, src[k])],
             dst |-> [k \in DOMAIN outcomes |-> Math_abs_diff(it, outcomes[k].v, src[k])]])

ErrorLoopInPlace(it, descriptor, src) ==
    StoreErrorsInPlace(it, src, CellOutcomes(it, descriptor))

\* the flat index + 1 of the transposed cell (x * map_size + y)
Transposed(k, map_size) == ((k - 1) % map_size) * map_size + ((k - 1) \div map_size) + 1

\* loops that read the stored value of the transposed cell
StoreErrorsTransposed(it, descriptor, src, outcomes) ==
    IF \E k \in DOMAIN outcomes : ~outcomes[k].ok THEN FirstFailure(outcomes)
    ELSE Ok([src |-> src,
             dst |-> [k \in DOMAIN outcomes |->
                        Math_abs_diff(it, outcomes[k].v,
                                      src[Transposed(k, descriptor.map_size)])]])

ErrorLoopTransposed(it, descriptor, src) ==
    StoreErrorsTransposed(it, descriptor, src, CellOutcomes(it, descriptor))

\* pixel_contrib[index] = Math.abs(i.interpolate(camera_angle, [x, y])
\*                                 - contrib.pixel_contrib[index])
\* for every cell of the zero-filled new array dst; src is the value array of
\* the input map as the loops leave it.  An exception of interpolate ends the
\* loops.
StoreErrors(it, src, zeros, outcomes) ==
    IF \E k \in DOMAIN outcomes : ~outcomes[k].ok THEN FirstFailure(outcomes)
    ELSE Ok([src |-> src,
             dst |-> [k \in DOMAIN zeros |-> Math_abs_diff(it, outcomes[k].v, src[k])]])

ErrorLoop(it, descriptor, src) ==
    StoreErrors(it, src, ZeroArray(it, descriptor.map_size * descriptor.map_size),
                CellOutcomes(it, descriptor))

\* the descriptor object the analysis builds for its output map
CopyDescriptor(contrib) ==
    [map_size |-> contrib.descriptor.map_size,
     camera_angle |-> contrib.descriptor.camera_angle]

\* the outcome of the loops for every map of the set
PerMap(it, maps) ==
    [i \in 1..Len(maps) |-> ErrorLoop(it, CopyDescriptor(maps[i]), maps[i].pixel_contrib)]

\* the maps before the first one whose loops throw
FailFree(per) == {i \in DOMAIN per : \A j \in 1..i : per[j].ok}

\* an analysis that returns the maps it finished before an exception
CollectMapsPartial(maps, n, per) ==
    Ok([contrib_maps |-> maps,
        result |-> [i \in FailFree(per) \cap 1..n |->
                       [descriptor |-> CopyDescriptor(maps[i]),
                        pixel_contrib |-> per[i].v.dst]]])

\* new PixelContributionMap(descriptor, pixel_contrib) for the first n maps;
\* contrib_maps is the input set as the call leaves it
CollectMaps(maps, n, per) ==
    IF \E i \in DOMAIN per : ~per[i].ok THEN FirstFailure(per)
    ELSE Ok([contrib_maps |-> [i \in 1..Len(maps) |->
                                  [maps[i] EXCEPT !.pixel_contrib = per[i].v.src]],
             result |-> [i \in 1..n |->
                            [descriptor |-> CopyDescriptor(maps[i]),
                             pixel_contrib |-> per[i].v.dst]]])

\* an analysis that leaves out the last map of the set
ErrorMapsDropLast(it, maps) == CollectMaps(maps, Len(maps) - 1, PerMap(it, maps))

\* contrib_maps.map(contrib => ...): one new map per input map, in order
ErrorMaps(it, maps) == CollectMaps(maps, Len(maps), PerMap(it, maps))

determine_interpolation_error(it, maps) == ErrorMaps(it, maps)

\* an index that leaves out the row stride
CellIndexNoStride(descriptor, x, y) == y + x

\* const index = y * descriptor.map_size + x
CellIndex(descriptor, x, y) == y * descriptor.map_size + x

\* one run of the loop body per map i (1-based) and cell (x, y)
CellTasks(maps) ==
    UNION {{<<i, x, y>> : x \in 0..(maps[i].descriptor.map_size - 1),
                          y \in 0..(maps[i].descriptor.map_size - 1)} :
           i \in 1..Len(maps)}

\* the runs of the loop body that may come next when the runs are tasks
\* without an order among them: all that have not run yet
PendingTasks(maps, done) == CellTasks(maps) \ done

-----------------------------------------------------------------------------
(* The codec and indexer jobs                                              *)

\* directions are the integer vectors with components in -MaxCoord..MaxCoord
MaxCoord == 3
\* map sizes are the powers of two 2^1 .. 2^MaxSizeExp
MaxSizeExp == 5

Coords == (-MaxCoord)..MaxCoord
MapSizes == {Pow2(k) : k \in 1..MaxSizeExp}

DirJobs ==
    {[kind |-> "dir", lang |-> l, dir |-> Plain(Vec3(x, y, z))] :
        l \in {"ts", "jl"}, x \in Coords, y \in Coords, z \in Coords}
\* index pairs include the ones just outside the grid
IdxJobs ==
    UNION {{[kind |-> "idx", map_size |-> s, uv |-> <<u, v>>] :
                u \in 0..(s + 1), v \in 0..(s + 1)} : s \in MapSizes}

\* directions paired with map sizes, the sizes 1 and 3 among them
IndexSizes == MapSizes \cup {1, 3}
DirIndexJobs ==
    {[kind |-> "dirindex", dir |-> Plain(Vec3(x, y, z)), map_size |-> s] :
        x \in Coords, y \in Coords, z \in Coords, s \in IndexSizes}

\* coordinates of the unit square on a grid of MaxOctSteps steps per axis
MaxOctSteps == 8
OctJobs ==
    {[kind |-> "oct", lang |-> l, oct |-> <<Rat(i, MaxOctSteps), Rat(j, MaxOctSteps)>>] :
        l \in {"ts", "jl"}, i \in 0..MaxOctSteps, j \in 0..MaxOctSteps}

\* clamp is called with the halves -MaxClamp/2 .. MaxClamp/2 and the doubles
\* that are no such number: NaN (what Math.round makes of the NaN coordinate
\* of the zero vector) and the infinities; the bounds are halves
MaxClamp == 4
ClampHalves == {Rat(k, 2) : k \in (-MaxClamp)..MaxClamp}
ClampJobs ==
    {[kind |-> "clamp", x |-> x, min_value |-> b[1], max_value |-> b[2]] :
        x \in ClampHalves \cup {NaN, <<1, 0>>, <<-1, 0>>},
        b \in {c \in ClampHalves \X ClampHalves : RLe(c[1], c[2])}}

IdleParse  == file = None /\ data = <<>> /\ ts_load = NotRun /\ jl_load = NotRun
IdleInterp ==
    /\ contrib_maps = <<>> /\ interp = NoInterpolator /\ query = NoQuery
    /\ error_maps = NotRun /\ access = NoAccess /\ par = NoTasks
IdleCodec  ==
    /\ job = None /\ octahedron = None /\ nrm2 = NotRun /\ jl_index = NotRun
    /\ ts_index = NotRun /\ clamped = <<>>

InitCodec ==
    /\ pc = "start"
    /\ job \in DirJobs \cup IdxJobs \cup DirIndexJobs \cup OctJobs \cup ClampJobs
    /\ octahedron = None
    /\ nrm2 = NotRun
    /\ jl_index = NotRun
    /\ ts_index = NotRun
    /\ clamped = <<>>
    /\ IdleParse
    /\ IdleInterp

Encode ==
    /\ pc = "start"
    /\ job.kind = "dir"
    /\ octahedron' = IF job.lang = "ts" THEN encode_octahedron_normal(job.dir)
                     ELSE jl_encode_octahedron_normal(job.dir)
    /\ pc' = "encoded"
    /\ UNCHANGED <<job, nrm2, jl_index, ts_index, clamped, parseVars, interpVars, parVars>>

Decode ==
    /\ pc = "encoded"
    /\ nrm2' = IF job.lang = "ts" THEN Ok(decode_octahedron_normal(octahedron))
               ELSE Ok(jl_decode_octahedron_normal(octahedron))
    /\ pc' = "decoded"
    /\ UNCHANGED <<job, octahedron, jl_index, ts_index, clamped, parseVars, interpVars, parVars>>

CameraDirFromIndex ==
    /\ pc = "start"
    /\ job.kind = "idx"
    /\ nrm2' = jl_camera_dir_from_index(job.uv, job.map_size)
    /\ pc' = "dir"
    /\ UNCHANGED <<job, octahedron, jl_index, ts_index, clamped, parseVars, interpVars, parVars>>

IndexFromCameraDir ==
    /\ pc = "dir"
    /\ nrm2.ok
    /\ jl_index' = jl_index_from_camera_dir(nrm2.v, job.map_size)
    /\ pc' = "indexed"
    /\ UNCHANGED <<job, octahedron, nrm2, ts_index, clamped, parseVars, interpVars, parVars>>

\* desc.index_from_camera_dir(dir) on a descriptor of the job's map size
TsIndexFromCameraDir ==
    /\ job.kind = "dirindex"
    /\ ts_index = NotRun
    /\ ts_index' = Ok(index_from_camera_dir(job.map_size, job.dir))
    /\ UNCHANGED <<pc, job, octahedron, nrm2, jl_index, clamped, parseVars, interpVars, parVars>>

\* index_from_camera_dir(dir, map_size) of contrib_maps.jl on the same input
JlIndexFromCameraDir ==
    /\ job.kind = "dirindex"
    /\ jl_index = NotRun
    /\ jl_index' = jl_index_from_camera_dir(job.dir, job.map_size)
    /\ UNCHANGED <<pc, job, octahedron, nrm2, ts_index, clamped, parseVars, interpVars, parVars>>

\* decode_octahedron_normal on a coordinate of the unit square
DecodeCoordinate ==
    /\ pc = "start"
    /\ job.kind = "oct"
    /\ nrm2' = IF job.lang = "ts" THEN Ok(decode_octahedron_normal(job.oct))
               ELSE Ok(jl_decode_octahedron_normal(job.oct))
    /\ pc' = "oct_decoded"
    /\ UNCHANGED <<job, octahedron, jl_index, ts_index, clamped, parseVars, interpVars, parVars>>

\* clamp(x, min_value, max_value), and then clamp on what it returned
Clamp ==
    /\ job.kind = "clamp"
    /\ Len(clamped) < 2
    /\ clamped' = Append(clamped,
                         clamp(IF clamped = <<>> THEN job.x ELSE clamped[Len(clamped)],
                               job.min_value, job.max_value))
    /\ UNCHANGED <<pc, job, octahedron, nrm2, jl_index, ts_index, parseVars, interpVars, parVars>>

NextCodec ==
    \/ Encode
    \/ Decode
    \/ CameraDirFromIndex
    \/ IndexFromCameraDir
    \/ TsIndexFromCameraDir
    \/ JlIndexFromCameraDir
    \/ DecodeCoordinate
    \/ Clamp

SpecCodec == InitCodec /\ [][NextCodec]_vars

\* C1: for every non-zero direction d, decode(encode(d)) is the unit vector
\* d/|d| itself (angular error 1 - dot = 0, within the 1e-6 of the claim), for
\* the poles, the equator and both hemispheres, in both implementations
C1_RoundTrip ==
    (pc = "decoded" /\ ~IsZeroVec(job.dir)) => SameDirection(job.dir, nrm2.v)

\* a direction of the lower hemisphere, off the axes, has been encoded and decoded
C1_Witness ==
    pc = "decoded" /\ job.dir = Plain(Vec3(1, -2, -1)) /\ SameDirection(job.dir, nrm2.v)

\* C2: both components of encode(d) lie in [0,1] for every non-zero d,
\* folded (z < 0) or not
C2_EncodeInRange ==
    (pc \in {"encoded", "decoded"} /\ ~IsZeroVec(job.dir))
        => InUnit(octahedron[1]) /\ InUnit(octahedron[2])

\* a folded direction has been encoded, and its code is on the border of the square
C2_Witness ==
    /\ pc = "encoded" /\ job.dir = Plain(Vec3(0, 0, -1))
    /\ octahedron = <<R(1), R(1)>>

\* C3: for every map size and every index pair of the grid,
\* index_from_camera_dir(camera_dir_from_index(uv, size), size) = uv
C3_IndexRoundTrip ==
    pc = "indexed" => jl_index = Ok(job.uv)

\* a cell of the lower hemisphere of the largest grid has made the round trip
C3_Witness ==
    /\ pc = "indexed" /\ job.map_size = Pow2(MaxSizeExp) /\ job.uv = <<1, job.map_size>>
    /\ RLt(nrm2.v.dir[3], R(0)) /\ jl_index = Ok(job.uv)

\* C15: encode of the zero-length vector (0,0,0) fails (InvalidInputError): it
\* never returns a coordinate, so no state after a returned encode call has the
\* zero vector as its input
C15_EncodeZeroFails ==
    (job.kind = "dir" /\ IsZeroVec(job.dir)) => pc \notin {"encoded", "decoded"}

\* what the encoders return for the zero vector: a coordinate of two NaN
EncodeZeroReturnsNaN ==
    (job.kind = "dir" /\ IsZeroVec(job.dir) /\ pc \in {"encoded", "decoded"})
        => octahedron = <<NaN, NaN>>

\* the index pair of a job lies in the grid of the Julia indexer (1-based)
JlInGrid == job.uv[1] \in 1..job.map_size /\ job.uv[2] \in 1..job.map_size

\* C16: camera_dir_from_index fails with the range error (ArgumentError in
\* Julia) whenever a component of the index lies outside the index range of
\* the grid, and returns a unit direction for every index inside it
C16_DirFromIndexRange ==
    pc \in {"dir", "indexed"} =>
        /\ ~JlInGrid => nrm2 = Err("ArgumentError")
        /\ JlInGrid => nrm2.ok /\ IsUnit(nrm2.v)

\* the first index below the grid in one component has been rejected
C16_Witness ==
    /\ pc = "dir" /\ job.map_size = 4 /\ job.uv = <<3, 0>>
    /\ nrm2 = Err("ArgumentError")

\* a number is one of the integers lo .. hi
IsIntegerIn(a, lo, hi) == IsFinite(a) /\ a[2] = 1 /\ a[1] >= lo /\ a[1] <= hi

\* C25: for every non-zero direction and every map size, the flat index
\* v * map_size + u of the TypeScript indexer is an integer of
\* 0 .. map_size^2 - 1 and both components of the Julia indexer's pair lie in
\* its index range 1 .. map_size, also when an encoded coordinate is 0 or 1
C25_IndexInRange ==
    (job.kind = "dirindex" /\ ~IsZeroVec(job.dir)) =>
        /\ ts_index # NotRun =>
              ts_index.ok /\ IsIntegerIn(ts_index.v, 0, job.map_size * job.map_size - 1)
        /\ jl_index # NotRun =>
              /\ jl_index.ok
              /\ jl_index.v[1] \in 1..job.map_size
              /\ jl_index.v[2] \in 1..job.map_size

\* the direction (0, 0, -1), whose encoded coordinate is (1, 1), has been
\* indexed by both implementations into the last cell of a 4 x 4 grid
C25_Witness ==
    /\ job.kind = "dirindex" /\ job.dir = Plain(Vec3(0, 0, -1)) /\ job.map_size = 4
    /\ encode_octahedron_normal(job.dir) = <<R(1), R(1)>>
    /\ ts_index = Ok(R(15)) /\ jl_index = Ok(<<4, 4>>)

\* C28: for every non-zero direction and every map size the two indexers
\* select the same cell: the Julia pair is (u + 1, v + 1) for the TypeScript
\* flat index v * map_size + u, also when a scaled coordinate is halfway
\* between two integers
C28_IndexersAgree ==
    (job.kind = "dirindex" /\ ~IsZeroVec(job.dir)
        /\ ts_index # NotRun /\ jl_index # NotRun) =>
        /\ jl_index.ok
        /\ ts_index = Ok(R((jl_index.v[2] - 1) * job.map_size + (jl_index.v[1] - 1)))

\* the direction (0, 0, 1) on a 2 x 2 grid: both scaled coordinates are 0.5,
\* which Math.round takes to 1 and round(UInt32, .) to 0
IndexersDisagreeAtPole ==
    /\ job.kind = "dirindex" /\ job.dir = Plain(Vec3(0, 0, 1)) /\ job.map_size = 2
    /\ ts_index = Ok(R(3)) /\ jl_index = Ok(<<1, 1>>)

\* the scaled and centred coordinates of a job's direction
ScaledCoordinate(k) ==
    RSub(RMul(encode_octahedron_normal(job.dir)[k], R(job.map_size)), Half)

IsTie(a) == IsFinite(a) /\ RSub(a, R(RFloor(a))) = Half

\* where no scaled coordinate is halfway between two integers, the two
\* indexers do select the same cell
IndexersAgreeOffTies ==
    (job.kind = "dirindex" /\ ~IsZeroVec(job.dir)
        /\ ts_index # NotRun /\ jl_index # NotRun
        /\ ~IsTie(ScaledCoordinate(1)) /\ ~IsTie(ScaledCoordinate(2))) =>
        /\ jl_index.ok
        /\ ts_index = Ok(R((jl_index.v[2] - 1) * job.map_size + (jl_index.v[1] - 1)))

\* the 1-norm of a vector
Norm1(v) == RAdd(RAdd(RAbs(v[1]), RAbs(v[2])), RAbs(v[3]))

\* C27: for every coordinate of the unit square the vector decode builds
\* before it normalises it has the 1-norm 1, with z >= 0 or with z < 0, so it
\* is not the zero vector and decode returns a unit vector
C27_DecodeNorm1 ==
    pc = "oct_decoded" =>
        /\ nrm2.ok
        /\ Norm1(nrm2.v.dir) = R(1)
        /\ nrm2.v.dir # Vec3(0, 0, 0)
        /\ IsUnit(nrm2.v)

\* a coordinate of the folded part of the square, off its diagonals and
\* borders, has been decoded to a vector with z < 0
C27_Witness ==
    /\ pc = "oct_decoded" /\ job.oct = <<Rat(7, 8), Rat(1, 8)>>
    /\ nrm2.ok /\ RLt(nrm2.v.dir[3], R(0))
    /\ nrm2.v.dir = <<Rat(1, 4), Rat(-1, 4), Rat(-1, 2)>>

\* the result r of clamp(x, min_value, max_value) is what the three cases say
ClampCases(x, min_value, max_value, r) ==
    /\ (RLe(min_value, x) /\ RLe(x, max_value)) => r = x
    /\ RLt(x, min_value) => r = min_value
    /\ RGt(x, max_value) => r = max_value

\* C30 as stated: for all x and all bounds min_value <= max_value, clamp
\* returns x inside the bounds, min_value below them and max_value above
\* them; its result lies in [min_value, max_value], and clamp applied to its
\* result returns the result
C30_ClampInRange ==
    (job.kind = "clamp" /\ Len(clamped) >= 1) =>
        /\ ClampCases(job.x, job.min_value, job.max_value, clamped[1])
        /\ RLe(job.min_value, clamped[1]) /\ RLe(clamped[1], job.max_value)
        /\ Len(clamped) = 2 => clamped[2] = clamped[1]

\* C30 as amended: the same for every x that is not NaN; clamp returns NaN
\* for the x NaN
C30_ClampInRangeUnlessNaN ==
    (job.kind = "clamp" /\ Len(clamped) >= 1) =>
        /\ ClampCases(job.x, job.min_value, job.max_value, clamped[1])
        /\ IF IsNaN(job.x) THEN IsNaN(clamped[1])
           ELSE RLe(job.min_value, clamped[1]) /\ RLe(clamped[1], job.max_value)
        /\ Len(clamped) = 2 => clamped[2] = clamped[1]

\* a value above the upper bound has been clamped to the bound, twice
C30_Witness ==
    /\ job.kind = "clamp" /\ job.x = Rat(3, 2)
    /\ job.min_value = R(-1) /\ job.max_value = Half
    /\ clamped = <<Half, Half>>

-----------------------------------------------------------------------------
(* The loader jobs                                                         *)

\* a file holds at most MaxFileMaps maps of size at most MaxFileMapSize
MaxFileMaps == 2
MaxFileMapSize == 2

\* bit patterns of the singles 0.25, 0.5, 0.75, 1.0 (cell values) and of the
\* camera angles 0.0 and 0.5
PaletteBits == <<1048576000, 1056964608, 1061158912, 1065353216>>
AngleBits == {0, 1056964608}
Magics == {PCMP, <<80, 67, 77, 81>>, <<112, 67, 77, 80>>}
Versions == {1, 2}

\* the k-th map of a file: cell i of its grid block holds palette entry k + i
FileMap(k, size, angle) ==
    [map_size |-> size, camera_angle |-> angle,
     values |-> [i \in 1..(size * size) |-> PaletteBits[((k + i) % 4) + 1]]]

RECURSIVE FileMapSeqs(_)
FileMapSeqs(n) ==
    IF n = 0 THEN {<<>>}
    ELSE {Append(ms, FileMap(n, sz, a)) :
            ms \in FileMapSeqs(n - 1), sz \in 1..MaxFileMapSize, a \in AngleBits}

Files ==
    {[magic |-> mg, version |-> ver, maps |-> ms] :
        mg \in Magics, ver \in Versions,
        ms \in UNION {FileMapSeqs(n) : n \in 0..MaxFileMaps}}

RECURSIVE WordsBytes(_)
WordsBytes(ws) == IF ws = <<>> THEN <<>> ELSE U32Bytes(Head(ws)) \o WordsBytes(Tail(ws))

RECURSIVE MapsBytes(_)
MapsBytes(ms) ==
    IF ms = <<>> THEN <<>>
    ELSE U32Bytes(Head(ms).map_size) \o U32Bytes(Head(ms).camera_angle)
            \o WordsBytes(Head(ms).values) \o MapsBytes(Tail(ms))

\* the PCMP layout: magic, version, map count, then the maps
Serialize(f) ==
    f.magic \o U32Bytes(f.version) \o U32Bytes(Len(f.maps)) \o MapsBytes(f.maps)

InitParse ==
    /\ pc = "start"
    /\ file \in Files
    /\ \E cut \in 0..Len(Serialize(file)) : data = SubSeq(Serialize(file), 1, cut)
    /\ ts_load = NotRun
    /\ jl_load = NotRun
    /\ IdleCodec
    /\ IdleInterp

LoadFromUrl ==
    /\ ts_load = NotRun
    /\ ts_load' = load_from_url(data)
    /\ UNCHANGED <<pc, file, data, jl_load, codecVars, interpVars, parVars>>

LoadPixelContrib ==
    /\ jl_load = NotRun
    /\ jl_load' = load_pixel_contrib(data)
    /\ UNCHANGED <<pc, file, data, ts_load, codecVars, interpVars, parVars>>

NextParse == LoadFromUrl \/ LoadPixelContrib

SpecParse == InitParse /\ [][NextParse]_vars

Truncated == Len(data) < Len(Serialize(file))
BadMagic == Len(data) >= 4 /\ SubSeq(data, 1, 4) # PCMP
GoodMagic == Len(data) >= 4 /\ SubSeq(data, 1, 4) = PCMP
ValidHeader == Len(data) >= 8 /\ SubSeq(data, 1, 4) = PCMP /\ getUint32(data, 4) = 1

\* the error each loader throws for a header it rejects because of its magic
TsFormatError == Err("Invalid pixel contribution header")
JlFormatError == Err("File does not start with 'PCMP'")

\* C4: a buffer whose first 4 bytes are not "PCMP" makes the loader fail with
\* its bad-magic error, whatever follows the 4 bytes
C4_BadMagicFormatError ==
    /\ (BadMagic /\ ts_load # NotRun) => ts_load = TsFormatError
    /\ (BadMagic /\ jl_load # NotRun) => jl_load = JlFormatError

\* C5: a buffer with the right magic and a version other than 1 makes the
\* loader fail with an error that is not its bad-magic error
C5_VersionErrorDistinct ==
    /\ (GoodMagic /\ Len(data) >= 8 /\ getUint32(data, 4) # 1 /\ ts_load # NotRun)
            => (~ts_load.ok /\ ts_load # TsFormatError)
    /\ (GoodMagic /\ Len(data) >= 8 /\ getUint32(data, 4) # 1 /\ jl_load # NotRun)
            => (~jl_load.ok /\ jl_load # JlFormatError)

\* C6: a buffer with a valid header that ends before the map count, a
\* descriptor or a grid is complete makes the loader fail with its
\* out-of-data error; no map set is returned
C6_TruncatedFails ==
    /\ (ValidHeader /\ Truncated /\ ts_load # NotRun) => ts_load = Err("RangeError")
    /\ (ValidHeader /\ Truncated /\ jl_load # NotRun) => jl_load = Err("EOFError")

\* a file of two maps cut in the middle of its second grid has been loaded
C6_Witness ==
    /\ ValidHeader /\ Len(file.maps) = 2 /\ file.maps[2].map_size = 2
    /\ Len(data) = Len(Serialize(file)) - 6
    /\ ts_load = Err("RangeError") /\ jl_load = Err("EOFError")

\* byte offset of the grid block of map k (1-based) of the loaded maps
RECURSIVE BlockStart(_, _)
BlockStart(sizes, k) ==
    IF k = 1 THEN 12 + 8
    ELSE BlockStart(sizes, k - 1) + 4 * sizes[k - 1] * sizes[k - 1] + 8

WellFormed == ValidHeader /\ ~Truncated

\* C7: a well-formed buffer declaring N maps loads as exactly N maps in file
\* order; map k has the size and angle of its descriptor and size^2 values,
\* cell (x,y) being the single at position y*size + x of the block of map k
C7_LoadLayout ==
    /\ (WellFormed /\ ts_load # NotRun) =>
          /\ ts_load.ok
          /\ Len(ts_load.v) = getUint32(data, 8)
          /\ Len(ts_load.v) = Len(file.maps)
          /\ LET sizes == [k \in 1..Len(ts_load.v) |-> ts_load.v[k].descriptor.map_size]
             IN  \A k \in 1..Len(ts_load.v) :
                   LET m == ts_load.v[k]
                       sz == m.descriptor.map_size
                       blk == BlockStart(sizes, k)
                   IN  /\ sz = file.maps[k].map_size
                       /\ sz = getUint32(data, blk - 8)
                       /\ m.descriptor.camera_angle = getFloat32(data, blk - 4)
                       /\ m.descriptor.camera_angle = F32FromBits(file.maps[k].camera_angle)
                       /\ Len(m.pixel_contrib) = sz * sz
                       /\ \A x \in 0..(sz - 1), y \in 0..(sz - 1) :
                            m.pixel_contrib[y * sz + x + 1]
                                = getFloat32(data, blk + 4 * (y * sz + x))
    /\ (WellFormed /\ jl_load # NotRun) =>
          /\ jl_load.ok
          /\ Len(jl_load.v) = getUint32(data, 8)
          /\ \A k \in 1..Len(jl_load.v) :
                LET m == jl_load.v[k]
                    sz == file.maps[k].map_size
                    blk == BlockStart([j \in 1..Len(file.maps) |-> file.maps[j].map_size], k)
                IN  /\ DOMAIN m.values = (1..sz) \X (1..sz)
                    /\ m.angle = getFloat32(data, blk - 4)
                    /\ \A x \in 0..(sz - 1), y \in 0..(sz - 1) :
                         m.values[<<x + 1, y + 1>>] = getFloat32(data, blk + 4 * (y * sz + x))

\* a file of two maps of different sizes has been loaded by both loaders
C7_Witness ==
    /\ WellFormed /\ Len(file.maps) = 2
    /\ file.maps[1].map_size = 2 /\ file.maps[2].map_size = 1
    /\ ts_load # NotRun /\ ts_load.ok /\ Len(ts_load.v) = 2
    /\ ts_load.v[1].pixel_contrib[3] = Rat(1, 4)
    /\ jl_load # NotRun /\ jl_load.ok /\ Len(jl_load.v) = 2

\* the camera angle and the values the sampler wrote for map k of the file
FileAngle(k) == F32FromBits(file.maps[k].camera_angle)
FileValues(k) == [i \in DOMAIN file.maps[k].values |-> F32FromBits(file.maps[k].values[i])]

\* the angles of the file are not the ascending angles from 0 an interpolator
\* asks for: the first is not 0, or one does not exceed the one before it
FileAnglesIrregular ==
    /\ Len(file.maps) >= 1
    /\ \/ FileAngle(1) # R(0)
       \/ \E k \in 1..(Len(file.maps) - 1) : RLe(FileAngle(k + 1), FileAngle(k))

\* C22: a well-formed buffer whose camera angles are not ascending, repeat, or
\* do not start at 0 is loaded all the same; the loaded set has the maps in
\* file order, each with the angle, the size and the values stored for it
C22_ParseKeepsAngles ==
    (WellFormed /\ FileAnglesIrregular) =>
        /\ ts_load # NotRun =>
              /\ ts_load.ok
              /\ Len(ts_load.v) = Len(file.maps)
              /\ \A k \in 1..Len(file.maps) :
                    /\ ts_load.v[k].descriptor.camera_angle = FileAngle(k)
                    /\ ts_load.v[k].descriptor.map_size = file.maps[k].map_size
                    /\ ts_load.v[k].pixel_contrib = FileValues(k)
        /\ jl_load # NotRun =>
              /\ jl_load.ok
              /\ Len(jl_load.v) = Len(file.maps)
              /\ \A k \in 1..Len(file.maps) : jl_load.v[k].angle = FileAngle(k)

\* a file of two maps at the angles 0.5 and 0, in that order, has been loaded
\* by both loaders
C22_Witness ==
    /\ WellFormed /\ Len(file.maps) = 2
    /\ FileAngle(1) = Rat(1, 2) /\ FileAngle(2) = R(0)
    /\ ts_load # NotRun /\ ts_load.ok /\ jl_load # NotRun /\ jl_load.ok
    /\ ts_load.v[1].descriptor.camera_angle = Rat(1, 2)
    /\ ts_load.v[2].descriptor.camera_angle = R(0)
    /\ jl_load.v[1].angle = Rat(1, 2) /\ jl_load.v[2].angle = R(0)

-----------------------------------------------------------------------------
(* The interpolator jobs                                                   *)

\* a map set holds 1 .. MaxMaps maps, all of one size in 1 .. MaxMapSize
MaxMaps == 4
MaxMapSize == 2

Palette == <<Rat(1, 4), Rat(1, 2), Rat(3, 4), R(1)>>
Patterns == {0, 1}
AngleProfiles == {"from0", "from_half", "descending", "constant"}

\* the camera angle of map k of n under an angle profile
AngleOf(profile, k, n) ==
    CASE profile = "from0" -> Rat(k - 1, 2)
      [] profile = "from_half" -> Rat(k, 2)
      [] profile = "descending" -> Rat(n - k, 2)
      [] profile = "constant" -> Rat(1, 2)

\* map k of a set: cell i (flat, 0-based) holds palette entry 2p + k + i
ContribMap(k, n, size, profile, p) ==
    [descriptor |-> [map_size |-> size, camera_angle |-> AngleOf(profile, k, n)],
     pixel_contrib |-> [i \in 1..(size * size) |-> Palette[((2 * p + k + i - 1) % 4) + 1]]]

MapSets ==
    UNION {{[k \in 1..n |-> ContribMap(k, n, size, profile, ps[k])] :
                size \in 1..MaxMapSize, profile \in AngleProfiles,
                ps \in [1..n -> Patterns]} : n \in 1..MaxMaps}

\* the synthetic sets of the end-to-end checks: two maps at the angles 0 and
\* pi/2, each holding one value in every cell
SyntheticValues == {Rat(1, 5), Rat(1, 2), Rat(4, 5)}

ConstantMap(size, angle, v) ==
    [descriptor |-> [map_size |-> size, camera_angle |-> angle],
     pixel_contrib |-> [i \in 1..(size * size) |-> v]]

SyntheticSets ==
    {<<ConstantMap(size, R(0), v0), ConstantMap(size, R(1), vN)>> :
        size \in 1..MaxMapSize, v0 \in SyntheticValues, vN \in SyntheticValues}

\* the angles of the stored maps and two angles between stored ones (pi/8, pi/4)
QueryAngles(maps) ==
    {maps[k].descriptor.camera_angle : k \in 1..Len(maps)} \cup {Rat(1, 4), Rat(1, 2)}
\* the cells of the grid and the positions just past its right and lower edge
QueryPositions(maps) ==
    (0..maps[1].descriptor.map_size) \X (0..maps[1].descriptor.map_size)

InitInterp ==
    /\ pc = "start"
    /\ contrib_maps \in MapSets \cup SyntheticSets
    /\ interp = NoInterpolator
    /\ query = NoQuery
    /\ error_maps = NotRun
    /\ access = NoAccess
    /\ par = NoTasks
    /\ IdleCodec
    /\ IdleParse

NewLinear ==
    /\ interp = NoInterpolator
    /\ interp' = [name |-> "Linear", out |-> LinearPixelContribInterpolator(contrib_maps)]
    /\ UNCHANGED <<pc, contrib_maps, query, error_maps, access, codecVars, parseVars, parVars>>

NewQuadratic ==
    /\ interp = NoInterpolator
    /\ interp' = [name |-> "Quadratic",
                  out |-> QuadraticPixelContribInterpolator(contrib_maps)]
    /\ UNCHANGED <<pc, contrib_maps, query, error_maps, access, codecVars, parseVars, parVars>>

NewValuePerAxis ==
    /\ interp = NoInterpolator
    /\ interp' = [name |-> "ValuePerAxis",
                  out |-> PixelContribValuePerAxisInterpolator(contrib_maps)]
    /\ UNCHANGED <<pc, contrib_maps, query, error_maps, access, codecVars, parseVars, parVars>>

NewBarycentric ==
    /\ interp = NoInterpolator
    /\ interp' = [name |-> "Barycentric",
                  out |-> PixelContribBarycentricInterpolator(contrib_maps)]
    /\ UNCHANGED <<pc, contrib_maps, query, error_maps, access, codecVars, parseVars, parVars>>

\* the camera angles of the set all have a half-angle tangent in Q(sqrt 2)
TanAnglesOnly(maps) == \A k \in 1..Len(maps) : maps[k].descriptor.camera_angle \in TanAngles

NewAngle ==
    /\ interp = NoInterpolator
    /\ TanAnglesOnly(contrib_maps)
    /\ interp' = [name |-> "Angle", out |-> AnglePixelContribInterpolator(contrib_maps)]
    /\ UNCHANGED <<pc, contrib_maps, query, error_maps, access, codecVars, parseVars, parVars>>

\* one interpolate call on the interpolator in use
Interpolate ==
    /\ interp.out.ok
    /\ query = NoQuery
    /\ \E angle \in QueryAngles(contrib_maps), pos \in QueryPositions(contrib_maps) :
          /\ interp.name = "Angle" => angle \in TanAngles
          /\ query' = [angle |-> angle, pos |-> pos, out |-> interpolate(interp, angle, pos)]
    /\ UNCHANGED <<pc, contrib_maps, interp, error_maps, access, codecVars, parseVars, parVars>>

\* determine_interpolation_error(interpolator, contrib_maps)
DetermineInterpolationError ==
    /\ interp.out.ok
    /\ interp.name \in {"Linear", "Angle", "Quadratic"}
    /\ error_maps = NotRun
    /\ query = NoQuery
    /\ \E r \in {determine_interpolation_error(interp, contrib_maps)} :
          /\ error_maps' = IF r.ok THEN Ok(r.v.result) ELSE r
          /\ contrib_maps' = IF r.ok THEN r.v.contrib_maps ELSE contrib_maps
    /\ UNCHANGED <<pc, interp, query, access, codecVars, parseVars, parVars>>

\* the interpolator is dropped; the next render constructs a new one
Discard ==
    /\ interp # NoInterpolator
    /\ interp' = NoInterpolator
    /\ query' = NoQuery
    /\ error_maps' = NotRun
    /\ UNCHANGED <<pc, contrib_maps, access, codecVars, parseVars, parVars>>

NextInterp ==
    \/ NewLinear
    \/ NewAngle
    \/ NewQuadratic
    \/ NewValuePerAxis
    \/ NewBarycentric
    \/ Interpolate
    \/ DetermineInterpolationError
    \/ Discard

SpecInterp == InitInterp /\ [][NextInterp]_vars

\* element accesses on the loaded set, with indices from one below the valid
\* range to one above it
GetMap ==
    /\ access = NoAccess
    /\ \E i \in (-1)..Len(contrib_maps) :
          access' = [op |-> "get_map", i |-> i, x |-> 0, y |-> 0,
                     out |-> ArrayAt(contrib_maps, i)]
    /\ UNCHANGED <<pc, contrib_maps, interp, query, error_maps, codecVars, parseVars, parVars>>

GetValueAt ==
    /\ access = NoAccess
    /\ \E i \in (-1)..Len(contrib_maps), x \in (-1)..MaxMapSize, y \in (-1)..MaxMapSize :
          access' = [op |-> "get_value_at", i |-> i, x |-> x, y |-> y,
                     out |-> PixelContribAt(contrib_maps, i, x, y)]
    /\ UNCHANGED <<pc, contrib_maps, interp, query, error_maps, codecVars, parseVars, parVars>>

NextStore == GetMap \/ GetValueAt

SpecStore == InitInterp /\ [][NextStore]_vars

-----------------------------------------------------------------------------
(* The error analysis with its loop body run as one task per cell.  The     *)
(* tasks share the map set and the interpolator, which none of them writes, *)
(* and run in any order; the loops of determine_interpolation_error are the *)
(* order by map, then row, then column.                                     *)

\* the sets of the task runs hold at most MaxParCells cells
MaxParCells == 8

ParallelSets ==
    {m \in MapSets \cup SyntheticSets :
        Len(m) * m[1].descriptor.map_size * m[1].descriptor.map_size <= MaxParCells}

InitParallel ==
    /\ pc = "start"
    /\ contrib_maps \in ParallelSets
    /\ interp = NoInterpolator
    /\ query = NoQuery
    /\ error_maps = NotRun
    /\ access = NoAccess
    /\ par = NoTasks
    /\ IdleCodec
    /\ IdleParse

\* new Float32Array(map_size * map_size) for every map, before any task runs
StartTasks ==
    /\ interp.out.ok
    /\ interp.name \in {"Linear", "Angle", "Quadratic"}
    /\ ~par.started
    /\ par' = [started |-> TRUE, done |-> {}, last |-> <<0, 0, 0>>,
               out |-> [i \in 1..Len(contrib_maps) |->
                          ZeroArray(interp, contrib_maps[i].descriptor.map_size
                                              * contrib_maps[i].descriptor.map_size)],
               writes |-> [i \in 1..Len(contrib_maps) |->
                             [k \in 1..(contrib_maps[i].descriptor.map_size
                                          * contrib_maps[i].descriptor.map_size) |-> 0]],
               failed |-> <<>>]
    /\ UNCHANGED <<pc, contrib_maps, interp, query, error_maps, access, codecVars, parseVars>>

\* the loop body for one cell:
\*   pixel_contrib[index] = Math.abs(interpolator.interpolate(camera_angle, [x, y])
\*                                   - contrib.get_value_at_index(index))
\* an exception of interpolate fails the analysis
RunCell ==
    /\ par.started
    /\ par.failed = <<>>
    /\ error_maps = NotRun
    /\ \E t \in PendingTasks(contrib_maps, par.done) :
          \E index \in {CellIndex(contrib_maps[t[1]].descriptor, t[2], t[3])} :
          \E r \in {interpolate(interp, contrib_maps[t[1]].descriptor.camera_angle,
                                 <<t[2], t[3]>>)} :
             par' = IF r.ok
                    THEN [par EXCEPT
                            !.done = @ \cup {t},
                            !.last = t,
                            !.out[t[1]][index + 1] =
                                Math_abs_diff(interp, r.v,
                                              contrib_maps[t[1]].pixel_contrib[index + 1]),
                            !.writes[t[1]][index + 1] = @ + 1]
                    ELSE [par EXCEPT !.done = @ \cup {t}, !.last = t, !.failed = <<r>>]
    /\ UNCHANGED <<pc, contrib_maps, interp, query, error_maps, access, codecVars, parseVars>>

\* result.add_map(new PixelContributionMap(descriptor, pixel_contrib)) for
\* every map once all tasks have run, or the exception of the task that failed
JoinTasks ==
    /\ par.started
    /\ error_maps = NotRun
    /\ par.failed # <<>> \/ PendingTasks(contrib_maps, par.done) = {}
    /\ error_maps' =
          IF par.failed # <<>> THEN par.failed[1]
          ELSE Ok([i \in 1..Len(contrib_maps) |->
                      [descriptor |-> CopyDescriptor(contrib_maps[i]),
                       pixel_contrib |-> par.out[i]]])
    /\ UNCHANGED <<pc, contrib_maps, interp, query, access, par, codecVars, parseVars>>

NextParallel ==
    \/ NewLinear
    \/ NewAngle
    \/ NewQuadratic
    \/ StartTasks
    \/ RunCell
    \/ JoinTasks

SpecParallel == InitParallel /\ [][NextParallel]_vars

\* what the loops of determine_interpolation_error return for the set
SequentialErrorMaps ==
    LET r == determine_interpolation_error(interp, contrib_maps)
    IN  IF r.ok THEN Ok(r.v.result) ELSE r

\* C26: whatever the order in which the per-cell tasks run, the analysis ends
\* with the error map set (or the exception) the loops by map, row and column
\* end with, no cell is written twice at any time, and every cell of a
\* returned set has been written exactly once
C26_OrderIndependent ==
    /\ par.started =>
          \A i \in DOMAIN par.writes : \A k \in DOMAIN par.writes[i] :
              par.writes[i][k] <= 1
    /\ (par.started /\ error_maps # NotRun) =>
          /\ error_maps = SequentialErrorMaps
          /\ error_maps.ok =>
                \A i \in DOMAIN par.writes : \A k \in DOMAIN par.writes[i] :
                    par.writes[i][k] = 1

\* the eight tasks of two 2x2 maps at different angles have run, the task of
\* the first cell of the first map last of all, and the analysis has returned
\* the set the loops return, every cell written once
C26_Witness ==
    /\ par.started /\ error_maps # NotRun /\ error_maps.ok
    /\ interp.name = "Linear" /\ Len(contrib_maps) = 2
    /\ contrib_maps[1].descriptor.map_size = 2
    /\ contrib_maps[1].descriptor.camera_angle # contrib_maps[2].descriptor.camera_angle
    /\ par.done = CellTasks(contrib_maps) /\ par.last = <<1, 0, 0>>
    /\ \A i \in 1..2 : \A k \in 1..4 : par.writes[i][k] = 1
    /\ error_maps = SequentialErrorMaps

Queried == query.out # NotRun
MapSize == contrib_maps[1].descriptor.map_size
InGrid(pos) == pos[1] \in 0..(MapSize - 1) /\ pos[2] \in 0..(MapSize - 1)
\* the stored value of a map (1-based k) at a cell of the grid
StoredValue(k, pos) == contrib_maps[k].pixel_contrib[pos[2] * MapSize + pos[1] + 1]
AngleAt(k) == contrib_maps[k].descriptor.camera_angle

\* the angle preconditions of the Quadratic variant on the maps it binds
QuadraticAnglesOk ==
    LET n == Len(contrib_maps)
    IN  /\ AngleAt(1) = R(0)
        /\ RLt(R(0), AngleAt((n \div 2) + 1))
        /\ RLt(AngleAt((n \div 2) + 1), AngleAt(n))

\* C8: a Quadratic interpolator built from three maps at angles 0 < x1 < x2 is
\* constructed and returns the stored value y0, y1, y2 at the queried cell when
\* queried with the angle 0, x1, x2
C8_QuadraticExactAtSamples ==
    (interp.name = "Quadratic" /\ Len(contrib_maps) = 3 /\ QuadraticAnglesOk) =>
        /\ interp.out.ok
        /\ \A k \in 1..3 :
              (Queried /\ InGrid(query.pos) /\ query.angle = AngleAt(k))
                  => query.out = Ok(StoredValue(k, query.pos))

\* the fitted polynomial itself passes through the three maps the constructor
\* binds (first, middle, last) whenever the constructor accepts the set
QuadraticPassesThroughBoundMaps ==
    (interp.name = "Quadratic" /\ interp.out.ok /\ QuadraticAnglesOk
        /\ Queried /\ InGrid(query.pos)) =>
        \A k \in {1, (Len(contrib_maps) \div 2) + 1, Len(contrib_maps)} :
            query.angle = AngleAt(k) => query.out = Ok(StoredValue(k, query.pos))

\* C9: the Quadratic constructor fails for sets of at most 2 maps and
\* succeeds for every set of at least 3 maps that meets the angle preconditions
C9_QuadraticNeedsThreeMaps ==
    interp.name = "Quadratic" =>
        /\ Len(contrib_maps) <= 2 => ~interp.out.ok
        /\ (Len(contrib_maps) >= 3 /\ QuadraticAnglesOk) => interp.out.ok

\* C10: interpolate fails with a RangeError for every position outside the
\* grid of the bound maps
C10_OutOfGridRangeError ==
    (Queried /\ ~InGrid(query.pos)) => query.out = Err("RangeError")

-----------------------------------------------------------------------------
(* The error analysis and the end-to-end checks                            *)

Cells == (0..(MapSize - 1)) \X (0..(MapSize - 1))

\* C11: determine_interpolation_error returns one map per map of the set, in
\* the same order, each with the camera_angle and the map_size of its input
\* map and map_size^2 values; with a Linear or Angle interpolator it returns
OutputShapeMatchesInput ==
    /\ Len(error_maps.v) = Len(contrib_maps)
    /\ \A i \in 1..Len(contrib_maps) :
          /\ error_maps.v[i].descriptor = contrib_maps[i].descriptor
          /\ DOMAIN error_maps.v[i].pixel_contrib
                = 1..(contrib_maps[i].descriptor.map_size * contrib_maps[i].descriptor.map_size)

C11_ErrorMapsShape ==
    error_maps # NotRun =>
        /\ interp.name \in {"Linear", "Angle"} => error_maps.ok
        /\ error_maps.ok => OutputShapeMatchesInput

\* the error maps of a set of three 2x2 maps have been computed
C11_Witness ==
    /\ error_maps # NotRun /\ error_maps.ok /\ interp.name = "Linear"
    /\ Len(contrib_maps) = 3 /\ MapSize = 2
    /\ Len(error_maps.v) = 3 /\ error_maps.v[3].descriptor.camera_angle = AngleAt(3)

\* the interpolator in use returns the stored value of every map at every cell
\* when queried with that map's angle
ExactOnSamples ==
    \A k \in 1..Len(contrib_maps) : \A pos \in Cells :
        interpolate(interp, AngleAt(k), pos)
            = Ok(IF interp.name = "Angle" THEN SFromR(StoredValue(k, pos))
                 ELSE StoredValue(k, pos))

AllZero ==
    \A i \in 1..Len(error_maps.v) : \A c \in DOMAIN error_maps.v[i].pixel_contrib :
        error_maps.v[i].pixel_contrib[c]
            = IF interp.name = "Angle" THEN SFromR(R(0)) ELSE R(0)

\* C12: with an interpolator that returns the stored value for every stored
\* angle and cell, every value of every error map is 0
C12_ExactInterpolatorZeroError ==
    (error_maps # NotRun /\ ExactOnSamples) => error_maps.ok /\ AllZero

\* a Linear interpolator of two 2x2 maps at different angles is exact at both
\* maps, and its error maps have been computed
C12_Witness ==
    /\ error_maps # NotRun /\ error_maps.ok /\ interp.name = "Linear"
    /\ Len(contrib_maps) = 2 /\ MapSize = 2 /\ AngleAt(1) # AngleAt(2)
    /\ contrib_maps[1].pixel_contrib # contrib_maps[2].pixel_contrib
    /\ ExactOnSamples /\ AllZero

\* the synthetic set of the end-to-end checks: constant values 0.2 and 0.8
IsSynthetic(v0, vN) ==
    /\ Len(contrib_maps) = 2 /\ AngleAt(1) = R(0) /\ AngleAt(2) = R(1)
    /\ \A pos \in Cells : StoredValue(1, pos) = v0 /\ StoredValue(2, pos) = vN

\* C13: Linear interpolate returns value0 * (1 - f) + valueN * f with
\* f = (angle - angle0) / (angleN - angle0), from the values at pos in the first
\* and the last map whatever the maps in between hold; on the synthetic set
\* {0: 0.2, pi/2: 0.8} it returns 0.5 at the angle pi/4 for every cell
C13_LinearFormula ==
    (interp.name = "Linear" /\ Queried /\ InGrid(query.pos)) =>
        LET n == Len(contrib_maps)
            f == RDiv(RSub(query.angle, AngleAt(1)), RSub(AngleAt(n), AngleAt(1)))
        IN  /\ query.out = Ok(RAdd(RMul(StoredValue(1, query.pos), RSub(R(1), f)),
                                   RMul(StoredValue(n, query.pos), f)))
            /\ (IsSynthetic(Rat(1, 5), Rat(4, 5)) /\ query.angle = Rat(1, 2))
                  => query.out = Ok(Rat(1, 2))

\* the synthetic set has been queried at pi/4 in the last cell of its grid
C13_Witness ==
    /\ interp.name = "Linear" /\ Queried /\ IsSynthetic(Rat(1, 5), Rat(4, 5))
    /\ MapSize = 2 /\ query.pos = <<1, 1>> /\ query.angle = Rat(1, 2)
    /\ query.out = Ok(Rat(1, 2))

\* C14: on the synthetic set {0: 0.2, pi/2: 0.8} the Angle (tangent)
\* interpolator returns at pi/4, for every cell, 0.2 * (1 - t) + 0.8 * t with
\* t = (tan(pi/8) - tan 0) / (tan(pi/4) - tan 0) = sqrt(2) - 1, a value strictly
\* between 0.2 and 0.8 and different from 0.5
C14_TangentAtQuarterPi ==
    (interp.name = "Angle" /\ Queried /\ InGrid(query.pos)
        /\ IsSynthetic(Rat(1, 5), Rat(4, 5)) /\ query.angle = Rat(1, 2)) =>
        LET t == SSub(Sqrt2, SFromR(R(1)))
        IN  /\ query.out.ok
            /\ query.out.v = SAdd(SMul(SFromR(Rat(1, 5)), SSub(SFromR(R(1)), t)),
                                  SMul(SFromR(Rat(4, 5)), t))
            /\ SLt(SFromR(Rat(1, 5)), query.out.v)
            /\ SLt(query.out.v, SFromR(Rat(4, 5)))
            /\ query.out.v # SFromR(Rat(1, 2))

\* the Angle interpolator of the synthetic set has been queried at pi/4
C14_Witness ==
    /\ interp.name = "Angle" /\ Queried /\ IsSynthetic(Rat(1, 5), Rat(4, 5))
    /\ MapSize = 2 /\ query.pos = <<0, 1>> /\ query.angle = Rat(1, 2)
    /\ query.out = Ok(<<Rat(-2, 5), Rat(3, 5)>>)

\* C20: no interpolator construction, interpolate call or error analysis
\* changes the map set: the number and order of the maps and every map's
\* camera_angle, map_size and values stay as they were loaded
C20_MapSetUnchanged == [][contrib_maps' = contrib_maps]_vars

\* an error analysis with a non-zero error and a query have both run
C20_Witness ==
    /\ error_maps # NotRun /\ error_maps.ok /\ Queried /\ query.out.ok
    /\ interp.name = "Linear" /\ Len(contrib_maps) = 3 /\ ~AllZero

\* the indices of an access lie in the set and in the grid of the map
AccessInRange ==
    /\ access.i \in 0..(Len(contrib_maps) - 1)
    /\ access.x \in 0..(MapSize - 1)
    /\ access.y \in 0..(MapSize - 1)

\* C17: reading map i fails with RangeError for every i outside
\* 0 .. size()-1, and reading the value at (i, x, y) fails with RangeError
\* whenever i, x or y is out of range
C17_AccessorsRangeChecked ==
    /\ (access.op = "get_map" /\ access.i \notin 0..(Len(contrib_maps) - 1))
          => access.out = Err("RangeError")
    /\ (access.op = "get_value_at" /\ ~AccessInRange)
          => access.out = Err("RangeError")

\* what the element accesses do instead: an access inside the ranges returns
\* the stored map or value, and one outside them never throws a RangeError
AccessorsUnchecked ==
    /\ (access.op = "get_map" /\ access.i \in 0..(Len(contrib_maps) - 1))
          => access.out = Ok(contrib_maps[access.i + 1])
    /\ (access.op = "get_value_at" /\ AccessInRange)
          => access.out = Ok(StoredValue(access.i + 1, <<access.x, access.y>>))
    /\ access.op # "none" => access.out # Err("RangeError")

\* C18: the Quadratic constructor fails for every set of at least 3 maps whose
\* first angle is not 0 or whose first, middle and last angles are not strictly
\* ascending, so that no interpolator exists that could answer a query
C18_QuadraticAnglesEnforced ==
    (interp.name = "Quadratic" /\ Len(contrib_maps) >= 3 /\ ~QuadraticAnglesOk)
        => ~interp.out.ok

\* the maps of the set at an angle
MapsAtAngle(angle) ==
    {contrib_maps[k] : k \in {j \in 1..Len(contrib_maps) : AngleAt(j) = angle}}

\* C19: ValuePerAxis and Barycentric return 0 for every query whose angle is
\* not the angle of a stored map, and for a query at a stored angle return what
\* the sub-interpolator of a map at exactly that angle derives, from that map
\* alone
C19_AngleKeyedExactMatch ==
    (interp.name \in {"ValuePerAxis", "Barycentric"} /\ Queried) =>
        /\ MapsAtAngle(query.angle) = {} => query.out = Ok(R(0))
        /\ MapsAtAngle(query.angle) # {} =>
              /\ query.out.ok
              /\ Len(query.out.v) = 3
              /\ query.out.v[1] = interp.name
              /\ query.out.v[3] = query.pos
              /\ query.out.v[2] \in MapsAtAngle(query.angle)
              /\ query.out.v[2] = contrib_maps[
                    CHOOSE k \in 1..Len(contrib_maps) :
                        /\ AngleAt(k) = query.angle
                        /\ \A j \in (k + 1)..Len(contrib_maps) : AngleAt(j) # query.angle]

\* a ValuePerAxis interpolator of four maps has been asked for an angle
\* between two stored angles and has returned 0
C19_Witness ==
    /\ interp.name = "ValuePerAxis" /\ Queried /\ Len(contrib_maps) = 4
    /\ query.angle = Rat(1, 4) /\ MapsAtAngle(query.angle) = {}
    /\ query.out = Ok(R(0))

-----------------------------------------------------------------------------
(* Failure propagation and the values of the error maps                    *)

\* the interpolate calls of the analysis over the whole set, by map and flat
\* index + 1
AllCellOutcomes ==
    [i \in 1..Len(contrib_maps) |-> CellOutcomes(interp, contrib_maps[i].descriptor)]

AllOk(outs) == \A i \in DOMAIN outs : \A k \in DOMAIN outs[i] : outs[i][k].ok

AllCellsOk == AllOk(AllCellOutcomes)

\* C21: determine_interpolation_error returns an error map set whenever every
\* interpolate call it makes returns; when one of them throws, the call ends
\* with that same exception and no error map set, complete or partial.  Stated
\* of the state the call returns in: a later Interpolate changes none of
\* error_maps, interp and contrib_maps
C21_FailurePropagates ==
    (error_maps # NotRun /\ query = NoQuery) =>
        \E outs \in {AllCellOutcomes} :
            /\ AllOk(outs) => error_maps.ok
            /\ ~AllOk(outs) =>
                  /\ ~error_maps.ok
                  /\ \E i \in DOMAIN outs : \E k \in DOMAIN outs[i] :
                        ~outs[i][k].ok /\ error_maps = outs[i][k]

\* the analysis of a Quadratic interpolator whose matrix could not be inverted
\* has ended with the TypeError of its first interpolate call
C21_Witness ==
    /\ error_maps # NotRun /\ interp.name = "Quadratic" /\ interp.out.ok
    /\ interp.out.v.A = None /\ Len(contrib_maps) = 4 /\ MapSize = 2
    /\ ~AllCellsOk /\ error_maps = Err("TypeError")

\* |v - stored| as the analysis is to compute it, v being the value interpolate
\* returned
AbsError(v, stored) ==
    IF interp.name = "Angle" THEN SAbs(SSub(v, SFromR(stored))) ELSE RAbs(RSub(v, stored))

ValueIsNaN(v) == IF interp.name = "Angle" THEN SIsNaN(v) ELSE IsNaN(v)

\* v >= 0 as a comparison of doubles: false for NaN
NonNegative(v) ==
    IF interp.name = "Angle" THEN ~SIsNaN(v) /\ ~SLt(v, SFromR(R(0)))
    ELSE RGe(v, R(0))

\* the value of error map i at the cell (x, y)
ErrorAt(i, x, y) ==
    error_maps.v[i].pixel_contrib[y * contrib_maps[i].descriptor.map_size + x + 1]

\* every cell of every error map holds |interpolate(angle_i, (x, y)) - stored|
ErrorValuesAsComputed(outs) ==
    \A i \in 1..Len(contrib_maps) :
        \A x \in 0..(contrib_maps[i].descriptor.map_size - 1) :
            \A y \in 0..(contrib_maps[i].descriptor.map_size - 1) :
                ErrorAt(i, x, y)
                    = AbsError(outs[i][y * contrib_maps[i].descriptor.map_size + x + 1].v,
                               StoredValue(i, <<x, y>>))

\* C23 as stated: every cell (x, y) of every error map i holds, at the flat
\* index y * map_size + x, |interpolate(angle_i, (x, y)) - stored value of map i
\* at (x, y)|, and every such value is >= 0 (in the state the analysis returns
\* in)
C23_ErrorValuesNonNegative ==
    (error_maps # NotRun /\ error_maps.ok /\ query = NoQuery) =>
        \E outs \in {AllCellOutcomes} :
            /\ ErrorValuesAsComputed(outs)
            /\ \A i \in 1..Len(contrib_maps) : \A x, y \in 0..(MapSize - 1) :
                  NonNegative(ErrorAt(i, x, y))

\* C23 as amended: the values are the ones stated, and each is >= 0 unless the
\* interpolated value is NaN, in which case the error value is NaN (in the state
\* the analysis returns in)
C23_ErrorValuesNonNegativeOrNaN ==
    (error_maps # NotRun /\ error_maps.ok /\ query = NoQuery) =>
        \E outs \in {AllCellOutcomes} :
            /\ ErrorValuesAsComputed(outs)
            /\ \A i \in 1..Len(contrib_maps) : \A x, y \in 0..(MapSize - 1) :
                  IF ValueIsNaN(outs[i][y * MapSize + x + 1].v)
                  THEN ValueIsNaN(ErrorAt(i, x, y))
                  ELSE NonNegative(ErrorAt(i, x, y))

\* the analysis of a Linear interpolator of three 2x2 maps at ascending angles
\* has found the error 0 for the first map and an error above 0 for the second
C23_Witness ==
    /\ error_maps # NotRun /\ error_maps.ok /\ interp.name = "Linear"
    /\ Len(contrib_maps) = 3 /\ MapSize = 2
    /\ AngleAt(1) = R(0) /\ AngleAt(3) = R(1)
    /\ ErrorAt(1, 1, 0) = R(0)
    /\ RGt(ErrorAt(2, 1, 0), R(0))
    /\ ErrorAt(2, 1, 0)
          = RAbs(RSub(RAdd(RMul(StoredValue(1, <<1, 0>>), Half),
                           RMul(StoredValue(3, <<1, 0>>), Half)),
                      StoredValue(2, <<1, 0>>)))

-----------------------------------------------------------------------------
(* The maps the Quadratic interpolator binds                               *)

\* the polynomial a * angle^2 + b * angle + c with c = y0 whose a and b solve
\* a * x1^2 + b * x1 = y1 - c and a * x2^2 + b * x2 = y2 - c, by Cramer's rule;
\* there is no such polynomial to evaluate when the determinant is 0
FittedQuadratic(x1, x2, y0, y1, y2, angle) ==
    LET det == RSub(RMul(RMul(x1, x1), x2), RMul(RMul(x2, x2), x1))
        a == RDiv(RSub(RMul(RSub(y1, y0), x2), RMul(RSub(y2, y0), x1)), det)
        b == RDiv(RSub(RMul(RSub(y2, y0), RMul(x1, x1)), RMul(RSub(y1, y0), RMul(x2, x2))),
                  det)
    IN  IF det = R(0) THEN Err("TypeError")
        ELSE Ok(RAdd(RAdd(RMul(RMul(a, angle), angle), RMul(b, angle)), y0))

\* the value of map k (1-based) at the flat index of a position, NaN outside
\* the value array
ValueAtPos(k, pos) ==
    ValueAtIndex(contrib_maps[k].pixel_contrib, pos[2] * MapSize + pos[1])

-----------------------------------------------------------------------------
(* Maps that share a camera angle                                          *)

\* the position (1-based) of the last map of the set at an angle
LastIndexAt(angle) ==
    CHOOSE k \in 1..Len(contrib_maps) :
        /\ AngleAt(k) = angle
        /\ \A j \in (k + 1)..Len(contrib_maps) : AngleAt(j) # angle

\* C29: a ValuePerAxis or Barycentric interpolator holds one sub-interpolator
\* for every angle of the set, the one built from the last map at that angle
\* in set order, and a query at the angle is answered from that map only
C29_LastMapPerAngle ==
    (interp.name \in {"ValuePerAxis", "Barycentric"} /\ interp.out.ok) =>
        /\ DOMAIN interp.out.v.interpolator = {AngleAt(k) : k \in 1..Len(contrib_maps)}
        /\ \A a \in DOMAIN interp.out.v.interpolator :
              interp.out.v.interpolator[a] = contrib_maps[LastIndexAt(a)]
        /\ (Queried /\ query.angle \in DOMAIN interp.out.v.interpolator) =>
              query.out = Ok(<<interp.name, contrib_maps[LastIndexAt(query.angle)], query.pos>>)

\* a Barycentric interpolator of three maps at one angle, the first and the
\* last of which differ, has been queried at that angle and has answered from
\* the last map
C29_Witness ==
    /\ interp.name = "Barycentric" /\ interp.out.ok /\ Len(contrib_maps) = 3
    /\ AngleAt(1) = Rat(1, 2) /\ AngleAt(2) = Rat(1, 2) /\ AngleAt(3) = Rat(1, 2)
    /\ contrib_maps[1] # contrib_maps[3] /\ contrib_maps[2] # contrib_maps[3]
    /\ DOMAIN interp.out.v.interpolator = {Rat(1, 2)}
    /\ Queried /\ query.angle = Rat(1, 2) /\ query.pos = <<0, 0>>
    /\ query.out = Ok(<<"Barycentric", contrib_maps[3], <<0, 0>>>>)

====
